---- MODULE Spec2Model ----
(***************************************************************************)
(* Verification model of the input/output protocol core of prompt_toolkit: *)
(* the VT100 input parser, the Telnet protocol parser, the ANSI            *)
(* formatted-text decoder and its format / % operators, the ScrollablePane *)
(* render pass, the generator-to-async-generator bridge, and the Layout      *)
(* focus stack with the search session functions.                          *)
(*                                                                         *)
(* Python strings are sequences of one-character strings; a bytes object   *)
(* is a tagged sequence of integers 0..255 and an int a tagged integer, so *)
(* that Python's == between an int and a bytes object is false as it is in *)
(* the interpreter.                                                        *)
(***************************************************************************)
EXTENDS Integers, Sequences, FiniteSets, TLC

VARIABLES
    vt_input,     \* the character stream the terminal produces
    vt_pos,       \* how many characters of vt_input have been fed
    vt_parser,    \* the Vt100Parser object (generator locals + callback log)
    vt_calls,     \* the calls made on the parser, in order
    tn_input,     \* the byte stream the socket produces
    tn_pos,       \* how many bytes of tn_input have been fed
    tn_parser,    \* the TelnetProtocolParser object
    ansi_value,   \* the string an ANSI object is to be built from
    ansi_obj,     \* the ANSI object (or NoObject before construction)
    fmt_last,     \* the last format / % call on ansi_obj and its result
    fmt_prev,     \* the call before it
    pane,         \* the ScrollablePane object
    pane_pass,    \* the last render pass: its inputs and visible_height
    mouse_handlers, \* the real screen's mouse handlers the pane has set
    pane_event,   \* the last mouse event dispatched to a copied handler
    screen,       \* what the last render pass wrote on the real screen
    gen_cfg,      \* the iterable and buffer_size of the generator bridge
    gen_queue,    \* the bridge's queue
    gen_producer, \* the producer thread
    gen_consumer, \* the coroutine iterating the async generator
    layout,       \* the Layout object: focus stack and search links
    layout_calls  \* the calls made on the layout, with the state before each

vars == <<vt_input, vt_pos, vt_parser, vt_calls,
          tn_input, tn_pos, tn_parser, ansi_value, ansi_obj,
          fmt_last, fmt_prev, pane, pane_pass, mouse_handlers, pane_event,
          screen,
          gen_cfg, gen_queue, gen_producer, gen_consumer,
          layout, layout_calls>>

vt_vars == <<vt_input, vt_pos, vt_parser, vt_calls>>
tn_vars == <<tn_input, tn_pos, tn_parser>>
ansi_vars == <<ansi_value, ansi_obj>>
fmt_vars == <<fmt_last, fmt_prev>>
pane_vars == <<pane, pane_pass, mouse_handlers, pane_event, screen>>
gen_vars == <<gen_cfg, gen_queue, gen_producer, gen_consumer>>
layout_vars == <<layout, layout_calls>>

(***************************************************************************)
(* Bounds of the model.                                                    *)
(***************************************************************************)
MaxLen == 3        \* longest VT100 input stream
MaxFlush == 2      \* most flush() calls in one run
MaxTnLen == 3      \* longest free-form telnet byte stream
MaxTokens == 4     \* most tokens an ANSI input string is built from
MaxArgs == 2       \* most positional values in one format / % call
MaxH == 4          \* tallest content of a ScrollablePane
MaxScroll == 5     \* largest vertical_scroll a run is followed to
MaxItems == 3      \* most items the producer of a generator bridge yields
MaxBuffer == 3     \* largest buffer_size of a generator bridge

(***************************************************************************)
(* Generic helpers on sequences.                                           *)
(***************************************************************************)
RECURSIVE SeqsUpTo(_, _)
SeqsUpTo(S, n) ==
    IF n = 0 THEN {<<>>}
    ELSE LET shorter == SeqsUpTo(S, n - 1)
         IN  shorter \cup {Append(s, x) : s \in {t \in shorter : Len(t) = n - 1}, x \in S}

Tail_(s, k) == SubSeq(s, k, Len(s))

startswith(s, p) == Len(p) <= Len(s) /\ SubSeq(s, 1, Len(p)) = p

(***************************************************************************)
(* ======================  VT100 input parser  =========================== *)
(***************************************************************************)
ESC == "ESC"
None == <<>>

\* What is sent to the generator: a string, or the _Flush marker object.
Str(s) == [flush |-> FALSE, s |-> s]
_Flush == [flush |-> TRUE, s |-> <<>>]

VtChars == {ESC, "[", "A", "1", "~", "x"}

IsDigit(c) == c \in {"0", "1", "2", "3", "4", "5", "6", "7", "8", "9"}
IsDigitOrSemi(c) == IsDigit(c) \/ c = ";"
AllDigits(s) == \A i \in 1..Len(s) : IsDigit(s[i])
AllDigitsOrSemi(s) == \A i \in 1..Len(s) : IsDigitOrSemi(s[i])
NoNewline(s) == \A i \in 1..Len(s) : s[i] # "\n"
StartsWithCSI(s) == Len(s) >= 2 /\ s[1] = ESC /\ s[2] = "["

\* ^ESC\[\d+;\d+R\Z
_cpr_response_re(s) ==
    /\ StartsWithCSI(s)
    /\ LET r == Tail_(s, 3)
           n == Len(r)
       IN  /\ n >= 4
           /\ r[n] = "R"
           /\ \E k \in 2..(n - 2) :
                 /\ r[k] = ";"
                 /\ AllDigits(SubSeq(r, 1, k - 1))
                 /\ AllDigits(SubSeq(r, k + 1, n - 1))

\* ^ESC\[(<?[\d;]+[mM]|M...)\Z
_mouse_event_re(s) ==
    /\ StartsWithCSI(s)
    /\ LET r == Tail_(s, 3)
           b == IF Len(r) >= 1 /\ r[1] = "<" THEN Tail_(r, 2) ELSE r
           n == Len(b)
       IN  \/ /\ n >= 2
              /\ b[n] \in {"m", "M"}
              /\ AllDigitsOrSemi(SubSeq(b, 1, n - 1))
           \/ /\ Len(r) = 4
              /\ r[1] = "M"
              /\ NoNewline(Tail_(r, 2))

\* ^ESC\[[\d;]*\Z
_cpr_response_prefix_re(s) ==
    StartsWithCSI(s) /\ AllDigitsOrSemi(Tail_(s, 3))

\* ^ESC\[(<?[\d;]*|M.{0,2})\Z
_mouse_event_prefix_re(s) ==
    /\ StartsWithCSI(s)
    /\ LET r == Tail_(s, 3)
           b == IF Len(r) >= 1 /\ r[1] = "<" THEN Tail_(r, 2) ELSE r
       IN  \/ AllDigitsOrSemi(b)
           \/ /\ Len(r) >= 1
              /\ Len(r) <= 3
              /\ r[1] = "M"
              /\ NoNewline(Tail_(r, 2))

\* The escape-sequence table (prompt_toolkit.input.ansi_escape_sequences):
\* the entries over VtChars.  A value is the tuple of keys the sequence
\* maps to.
ANSI_SEQUENCES ==
    { <<<<ESC>>, <<"Keys.Escape">>>>,
      <<<<ESC, "[", "A">>, <<"Keys.Up">>>>,
      <<<<ESC, "[", "1", "~">>, <<"Keys.Home">>>>,
      <<<<ESC, "[", "1", ";", "3", "A">>, <<"Keys.Escape", "Keys.Up">>>> }

AnsiKeys == {e[1] : e \in ANSI_SEQUENCES}
AnsiLookup(prefix) == (CHOOSE e \in ANSI_SEQUENCES : e[1] = prefix)[2]

\* _IsPrefixOfLongerMatchCache.__missing__ (the cache only memoises it).
_IS_PREFIX_OF_LONGER_MATCH_CACHE(prefix) ==
    IF _cpr_response_prefix_re(prefix) \/ _mouse_event_prefix_re(prefix)
    THEN TRUE
    ELSE \E k \in AnsiKeys : startswith(k, prefix) /\ k # prefix

\* Vt100Parser._get_match: the tuple of keys for prefix, or None.
_get_match(prefix) ==
    IF prefix \in AnsiKeys THEN AnsiLookup(prefix)
    ELSE IF _cpr_response_re(prefix) THEN <<"Keys.CPRResponse">>
    ELSE IF _mouse_event_re(prefix) THEN <<"Keys.Vt100MouseEvent">>
    ELSE None

KeyPress(key, data) == [key |-> key, data |-> data]

\* Vt100Parser._call_handler for a tuple of keys (a single key is a
\* 1-tuple): one KeyPress per key, none when insert_text is empty.
\* `handled` records each top-level call (history only; the code keeps
\* no such list).
_call_handler(P, keytuple, insert_text) ==
    IF insert_text = <<>> THEN P
    ELSE [P EXCEPT !.keys = @ \o [i \in 1..Len(keytuple) |->
                                      KeyPress(keytuple[i], insert_text)],
                   !.handled = Append(@, [key |-> keytuple, data |-> insert_text])]

\* The branch taken when an exact match is found (lines 110-112).
MatchBranchKeepPrefix(P, match) ==
    _call_handler(P, match, P.prefix)

MatchBranch(P, match) ==
    [_call_handler(P, match, P.prefix) EXCEPT !.prefix = <<>>]

\* The literal branch (lines 118-123): emit the first buffered character.
LiteralBranchDrop(P) ==
    [P EXCEPT !.prefix = Tail(@)]

LiteralBranch(P) ==
    [_call_handler(P, <<P.prefix[1]>>, <<P.prefix[1]>>) EXCEPT !.prefix = Tail(@)]

\* One pass of the generator's loop body after a value was received
\* (lines 101-128), repeated while `retry` is set; `flush` is cleared at
\* the top of every repetition (line 88).  A repetition that changes
\* nothing and sets retry again never reaches the next yield: hung.
RECURSIVE ParserLoop(_, _)
ParserLoop(P, flush) ==
    IF P.prefix = <<>> THEN P
    ELSE LET is_prefix_of_longer_match ==
                 IF flush THEN FALSE ELSE _IS_PREFIX_OF_LONGER_MATCH_CACHE(P.prefix)
             match == _get_match(P.prefix)
         IN  IF match # None THEN MatchBranch(P, match)
             ELSE IF is_prefix_of_longer_match /\ ~flush
                  THEN [P EXCEPT !.hung = TRUE]
                  ELSE ParserLoop(LiteralBranch(P), FALSE)

\* generator.send(c): c is a string (appended to prefix) or _Flush
\* (lines 94-99), then the loop body.
_input_parser_generator(P, c) ==
    IF P.hung THEN P
    ELSE IF c.flush THEN ParserLoop(P, TRUE)
    ELSE ParserLoop([P EXCEPT !.prefix = @ \o c.s], FALSE)

\* A parser whose generator is not at a yield: nothing can be sent to it.
_start_parser_not_primed(P) == [P EXCEPT !.prefix = <<>>, !.hung = TRUE]

\* Vt100Parser._start_parser: a new generator, run to its first yield
\* (locals as set at lines 83-85).
_start_parser(P) == [P EXCEPT !.prefix = <<>>, !.hung = FALSE]

\* Vt100Parser.reset, which __init__ calls (line 53); the class in src/
\* does not define it.  Modelled as starting the parser.
reset(P) == _start_parser(P)

\* Vt100Parser.__init__, with a callback that appends to `keys`.
Vt100Parser ==
    reset([prefix |-> <<>>, keys |-> <<>>, handled |-> <<>>, hung |-> FALSE])

\* Vt100Parser.feed: one send per character of data.
RECURSIVE feed(_, _)
feedWholeChunk(P, data) ==
    IF data = <<>> THEN P ELSE _input_parser_generator(P, Str(data))

feed(P, data) ==
    IF data = <<>> THEN P
    ELSE feed(_input_parser_generator(P, Str(<<Head(data)>>)), Tail(data))

\* Vt100Parser.flush
flush(P) == _input_parser_generator(P, _Flush)

\* Vt100Parser.feed_and_flush
feed_and_flush(P, data) == flush(feed(P, data))

VtInputs == SeqsUpTo(VtChars, MaxLen)

\* feed(chunk) with the next n characters of the stream.
VtFeed ==
    /\ ~vt_parser.hung
    /\ vt_pos < Len(vt_input)
    /\ \E n \in 1..(Len(vt_input) - vt_pos) :
          /\ vt_parser' = feed(vt_parser, SubSeq(vt_input, vt_pos + 1, vt_pos + n))
          /\ vt_pos' = vt_pos + n
          /\ vt_calls' = Append(vt_calls, "feed")
    /\ UNCHANGED <<vt_input, tn_vars, ansi_vars, fmt_vars, pane_vars, gen_vars, layout_vars>>

\* flush(), e.g. on the caller's timeout.
VtFlush ==
    /\ ~vt_parser.hung
    /\ Cardinality({i \in 1..Len(vt_calls) : vt_calls[i] = "flush"}) < MaxFlush
    /\ vt_parser' = flush(vt_parser)
    /\ vt_calls' = Append(vt_calls, "flush")
    /\ UNCHANGED <<vt_input, vt_pos, tn_vars, ansi_vars, fmt_vars, pane_vars, gen_vars, layout_vars>>

(***************************************************************************)
(* ======================  Telnet protocol parser  ======================= *)
(***************************************************************************)
\* Python values: an int, or a bytes object (its bytes in order).  Equality
\* of records makes an int never equal to a bytes object, as in Python.
PyInt(n) == [t |-> "int", v |-> <<n>>]
PyBytes(seq) == [t |-> "bytes", v |-> seq]
PyEq(a, b) == a = b

\* int2byte(number) = bytes((number,)); its definition is not in the file.
int2byte(n) == PyBytes(<<n>>)

NOP == int2byte(0)
SGA == int2byte(3)
IAC == int2byte(255)
DO == int2byte(253)
DONT == int2byte(254)
LINEMODE == int2byte(34)
SB == int2byte(250)
WILL == int2byte(251)
WONT == int2byte(252)
MODE == int2byte(1)
SE == int2byte(240)
ECHO == int2byte(1)
NAWS == int2byte(31)
SUPPRESS_GO_AHEAD == int2byte(3)
TTYPE == int2byte(24)
SEND == int2byte(1)
IS == int2byte(0)

\* The exception a failing step leaves in the parser object ("" = none).
Raise(T, exc) == [T EXCEPT !.raised = exc, !.pc = "dead"]

\* self.data_received_callback(value)
data_received_callback(T, value) == [T EXCEPT !.data = Append(@, value)]

\* self.size_received_callback(rows, columns)
size_received_callback(T, rows, columns) ==
    [T EXCEPT !.sizes = Append(@, [rows |-> rows, columns |-> columns])]

\* self.ttype_received_callback(terminal_type)
ttype_received_callback(T, terminal_type) ==
    [T EXCEPT !.ttypes = Append(@, terminal_type)]

\* logger.warning(...)
warning(T) == [T EXCEPT !.warnings = @ + 1]

\* a + b on a bytes object a: concatenation when b is bytes too, else
\* TypeError.  Callback(T, a + b), or the exception.
CallbackOfSum(T, a, b) ==
    IF b.t = "bytes" THEN data_received_callback(T, PyBytes(a.v \o b.v))
    ELSE Raise(T, "TypeError")

\* TelnetProtocolParser.do_received
do_received(T, data) ==
    IF PyEq(data, ECHO) THEN CallbackOfSum(T, WILL, ECHO)
    ELSE IF PyEq(data, SUPPRESS_GO_AHEAD) THEN CallbackOfSum(T, WILL, SUPPRESS_GO_AHEAD)
    ELSE CallbackOfSum(T, WONT, data)

\* TelnetProtocolParser.dont_received
dont_received(T, data) == CallbackOfSum(T, WONT, data)

\* TelnetProtocolParser.will_received
will_received(T, data) ==
    IF PyEq(data, ECHO) \/ PyEq(data, SUPPRESS_GO_AHEAD)
    THEN CallbackOfSum(T, DO, data)
    ELSE CallbackOfSum(T, DONT, data)

\* TelnetProtocolParser.wont_received
wont_received(T, data) == CallbackOfSum(T, DONT, data)

\* TelnetProtocolParser.naws: data is a sequence of byte values.
naws(T, data) ==
    IF Len(data) = 4
    THEN LET columns == 256 * data[1] + data[2]
             rows == 256 * data[3] + data[4]
         IN  size_received_callback(T, rows, columns)
    ELSE warning(T)

\* bytes.decode('ascii', errors='ignore'): non-ASCII bytes are left out.
RECURSIVE decode_ascii_ignore(_)
decode_ascii_ignore(data) ==
    IF data = <<>> THEN <<>>
    ELSE (IF Head(data) < 128 THEN <<Head(data)>> ELSE <<>>)
             \o decode_ascii_ignore(Tail(data))

\* TelnetProtocolParser.ttype
ttype(T, data) ==
    IF startswith(data, IS.v)
    THEN ttype_received_callback(T, decode_ascii_ignore(Tail(data)))
    ELSE warning(T)

\* TelnetProtocolParser.negotiate: data is a sequence of byte values.
negotiate(T, data) ==
    IF startswith(data, NAWS.v) THEN naws(T, Tail(data))
    ELSE IF startswith(data, TTYPE.v) THEN ttype(T, Tail(data))
    ELSE warning(T)

\* bytes(subnegotiation): a list of ints in 0..255 becomes a bytes object;
\* any other element is a TypeError.
BytesOfList(T, lst) ==
    IF \A i \in 1..Len(lst) : lst[i].t = "int"
    THEN negotiate(T, [i \in 1..Len(lst) |-> lst[i].v[1]])
    ELSE Raise(T, "TypeError")

\* bytes([d]) for the value d received at the top of the loop (line 160).
BytesOfOne(T, d) ==
    IF d.t = "int" THEN data_received_callback(T, PyBytes(d.v))
    ELSE Raise(T, "TypeError")

\* One send() into TelnetProtocolParser._parse_coroutine: the code between
\* the yield the coroutine is suspended at (pc) and the next yield.
_parse_coroutine(T, d) ==
    CASE T.pc = "d" ->
            IF PyEq(d, IAC) THEN [T EXCEPT !.pc = "d2"]
            ELSE BytesOfOne(T, d)
      [] T.pc = "d2" ->
            IF PyEq(d, IAC) THEN [data_received_callback(T, IAC) EXCEPT !.pc = "d"]
            ELSE IF PyEq(d, DO) \/ PyEq(d, DONT) \/ PyEq(d, WILL) \/ PyEq(d, WONT)
                 THEN [T EXCEPT !.pc = "d3", !.d2 = d]
            ELSE IF PyEq(d, SB)
                 THEN [T EXCEPT !.pc = "sb", !.subnegotiation = <<>>]
            ELSE [warning(T) EXCEPT !.pc = "d"]
      [] T.pc = "d3" ->
            LET T0 == [T EXCEPT !.pc = "d"]
            IN  IF PyEq(T.d2, DO) THEN do_received(T0, d)
                ELSE IF PyEq(T.d2, DONT) THEN dont_received(T0, d)
                ELSE IF PyEq(T.d2, WILL) THEN will_received(T0, d)
                ELSE wont_received(T0, d)
      [] T.pc = "sb" ->
            IF PyEq(d, IAC) THEN [T EXCEPT !.pc = "sb_iac", !.d3 = d]
            ELSE [T EXCEPT !.subnegotiation = Append(@, d)]
      [] T.pc = "sb_iac" ->
            IF PyEq(d, SE) THEN BytesOfList([T EXCEPT !.pc = "d"], T.subnegotiation)
            ELSE [T EXCEPT !.pc = "sb",
                           !.subnegotiation = Append(Append(@, T.d3), d)]
      [] OTHER -> T

\* TelnetProtocolParser.__init__: the coroutine primed at its first yield.
TelnetProtocolParser ==
    [pc |-> "d", d2 |-> PyInt(0), d3 |-> PyInt(0), subnegotiation |-> <<>>,
     data |-> <<>>, sizes |-> <<>>, ttypes |-> <<>>, warnings |-> 0,
     raised |-> ""]

\* TelnetProtocolParser.feed: iterating a bytes object yields ints, and
\* each is sent as it is.  An exception ends the loop.
RECURSIVE tn_feed(_, _)
tn_feed(T, data) ==
    IF data = <<>> \/ T.raised # "" THEN T
    ELSE tn_feed(_parse_coroutine(T, PyInt(Head(data))), Tail(data))

\* Byte streams the socket may deliver.
TnOptions == {0, 1, 3, 24, 31, 34}
TnDims == {24, 80, 300}
TnBytes == {255, 253, 250, 240, 1, 65}
TnUnknownCommands == {7, 241}

DoFrames == {<<255, 253, o>> : o \in TnOptions}
NawsFrame(c, r) ==
    <<255, 250, 31, c \div 256, c % 256, r \div 256, r % 256, 255, 240>>
NawsFrames == {NawsFrame(c, r) : c \in TnDims, r \in TnDims}
ResyncStreams == {<<255, x, 255, 253, 1>> : x \in TnUnknownCommands}
\* NAWS frames whose column low byte is a literal 255, sent as IAC IAC.
EscNawsFrames ==
    {<<255, 250, 31, 0, 255, 255, r \div 256, r % 256, 255, 240>> : r \in TnDims}
\* Terminal names "x" and "vt"; sub-codes IS (0) and SEND (1).
TnTermNames == {<<120>>, <<118, 116>>}
TtypeFrame(code, name) == <<255, 250, 24, code>> \o name \o <<255, 240>>
TtypeIsFrames == {TtypeFrame(0, t) : t \in TnTermNames}
TtypeSendFrames == {TtypeFrame(1, t) : t \in TnTermNames}
WillFrames == {<<255, 251, o>> : o \in TnOptions}
DontFrames == {<<255, 254, o>> : o \in TnOptions}
WontFrames == {<<255, 252, o>> : o \in TnOptions}
SubnegotiationFrames == EscNawsFrames \cup TtypeIsFrames \cup TtypeSendFrames
RequestFrames == DoFrames \cup WillFrames \cup DontFrames \cup WontFrames
\* NAWS frames with 0, 2 and 5 payload bytes, each followed by the byte 'A'.
NawsPayloads == {<<>>, <<0, 80>>, <<0, 80, 0, 24, 1>>}
MalformedNawsStreams == {<<255, 250, 31>> \o p \o <<255, 240, 65>> : p \in NawsPayloads}
TelnetInputs ==
    SeqsUpTo(TnBytes, MaxTnLen) \cup RequestFrames \cup NawsFrames
        \cup SubnegotiationFrames \cup ResyncStreams \cup MalformedNawsStreams

\* feed(chunk) with the next n bytes of the stream.
TnFeed ==
    /\ tn_parser.raised = ""
    /\ tn_pos < Len(tn_input)
    /\ \E n \in 1..(Len(tn_input) - tn_pos) :
          /\ tn_parser' = tn_feed(tn_parser, SubSeq(tn_input, tn_pos + 1, tn_pos + n))
          /\ tn_pos' = tn_pos + n
    /\ UNCHANGED <<tn_input, vt_vars, ansi_vars, fmt_vars, pane_vars, gen_vars, layout_vars>>

(***************************************************************************)
(* ======================  ANSI formatted text  ========================== *)
(***************************************************************************)
SOH == "\\001"
STX == "\\002"

Letters ==
    {"a", "b", "c", "d", "e", "f", "g", "h", "i", "j", "k", "l", "m",
     "n", "o", "p", "q", "r", "s", "t", "u", "v", "w", "x", "y", "z",
     "A", "B", "C", "D", "E", "F", "G", "H", "I", "J", "K", "L", "M",
     "N", "O", "P", "Q", "R", "S", "T", "U", "V", "W", "X", "Y", "Z"}
isalpha(c) == c \in Letters

DigitValue(c) ==
    CASE c = "0" -> 0 [] c = "1" -> 1 [] c = "2" -> 2 [] c = "3" -> 3
      [] c = "4" -> 4 [] c = "5" -> 5 [] c = "6" -> 6 [] c = "7" -> 7
      [] c = "8" -> 8 [] c = "9" -> 9

\* str.split(';')
RECURSIVE split_semicolon(_)
split_semicolon(str) ==
    IF \A i \in 1..Len(str) : str[i] # ";" THEN <<str>>
    ELSE LET k == CHOOSE i \in 1..Len(str) :
                      str[i] = ";" /\ \A j \in 1..(i - 1) : str[j] # ";"
         IN  <<SubSeq(str, 1, k - 1)>> \o split_semicolon(Tail_(str, k + 1))

\* int(attr) on the strings the inputs here produce (digits, blanks,
\* other characters; no sign and no underscore): blanks around the digits
\* are stripped, anything else than digits is a ValueError.
RECURSIVE strip(_)
strip(str) ==
    IF str # <<>> /\ Head(str) = " " THEN strip(Tail(str))
    ELSE IF str # <<>> /\ str[Len(str)] = " " THEN strip(SubSeq(str, 1, Len(str) - 1))
    ELSE str

int_ok(str) == strip(str) # <<>> /\ AllDigits(strip(str))

RECURSIVE DigitsValue(_)
DigitsValue(str) ==
    IF str = <<>> THEN 0
    ELSE 10 * DigitsValue(SubSeq(str, 1, Len(str) - 1)) + DigitValue(str[Len(str)])

int(str) == DigitsValue(strip(str))

\* The effect of one SGR code on the object's attributes (lines 92-123).
\* The four colour branches (lines 116-123) read ANSI_COLOR_NAMES, a name
\* the module neither defines nor imports: evaluating it raises NameError.
apply_attr(A, attr) ==
    IF attr = 0 THEN
        [A EXCEPT !._color = None, !._bgcolor = None, !._bold = FALSE,
                  !._underline = FALSE, !._strike = FALSE, !._italic = FALSE,
                  !._blink = FALSE, !._reverse = FALSE, !._hidden = FALSE]
    ELSE IF attr = 1 THEN [A EXCEPT !._bold = TRUE]
    ELSE IF attr = 3 THEN [A EXCEPT !._italic = TRUE]
    ELSE IF attr = 4 THEN [A EXCEPT !._underline = TRUE]
    ELSE IF attr = 5 THEN [A EXCEPT !._blink = TRUE]
    ELSE IF attr = 7 THEN [A EXCEPT !._reverse = TRUE]
    ELSE IF attr = 8 THEN [A EXCEPT !._hidden = TRUE]
    ELSE IF attr = 9 THEN [A EXCEPT !._strike = TRUE]
    ELSE IF (30 <= attr /\ attr <= 37) \/ (40 <= attr /\ attr <= 47)
              \/ (90 <= attr /\ attr <= 97) \/ (100 <= attr /\ attr <= 107)
         THEN [A EXCEPT !.raised = "NameError"]
    ELSE A

\* The loop over attrs.split(';') (lines 88-123); int() may raise.
RECURSIVE apply_attrs(_, _)
apply_attrs(A, attrs) ==
    IF attrs = <<>> \/ A.raised # "" THEN A
    ELSE IF Head(attrs) = <<>> THEN apply_attrs(A, Tail(attrs))
    ELSE IF ~int_ok(Head(attrs)) THEN [A EXCEPT !.raised = "ValueError"]
    ELSE apply_attrs(apply_attr(A, int(Head(attrs))), Tail(attrs))

\* ANSI._select_graphic_rendition
_select_graphic_rendition(A, attrs) ==
    LET inner == IF Len(attrs) >= 1 /\ attrs[1] = "[" /\ attrs[Len(attrs)] = "m"
                 THEN SubSeq(attrs, 2, Len(attrs) - 1)
                 ELSE attrs
    IN  apply_attrs(A, split_semicolon(inner))

\* ANSI._create_style_string: ' '.join(parts), kept as the list of parts.
_create_style_string(A) ==
    (IF A._color # None THEN <<A._color>> ELSE <<>>)
    \o (IF A._bgcolor # None THEN <<<<"bg:">> \o A._bgcolor>> ELSE <<>>)
    \o (IF A._bold THEN <<<<"bold">>>> ELSE <<>>)
    \o (IF A._underline THEN <<<<"underline">>>> ELSE <<>>)
    \o (IF A._italic THEN <<<<"italic">>>> ELSE <<>>)
    \o (IF A._blink THEN <<<<"blink">>>> ELSE <<>>)
    \o (IF A._reverse THEN <<<<"reverse">>>> ELSE <<>>)
    \o (IF A._hidden THEN <<<<"hidden">>>> ELSE <<>>)
    \o (IF A._strike THEN <<<<"strike">>>> ELSE <<>>)

Fragment(style, text) == [style |-> style, text |-> text]
ZeroWidthEscape == <<<<"[ZeroWidthEscape]">>>>

\* formatted_text.append((style, text)) when text is not empty, then
\* text = '' (lines 67-69 and 72-74).
FlushText(A) ==
    IF A.text # <<>>
    THEN [A EXCEPT !._formatted_text = Append(@, Fragment(A.style, A.text)),
                   !.text = <<>>]
    ELSE A

\* A decoder that looks for ESC before it looks at the zero-width flag.
_parse_corot_esc_first(A, char) ==
    IF A.in_escape_sequence THEN
        LET A1 == [A EXCEPT !.escape_sequence = @ \o <<char>>]
        IN  IF isalpha(char) \/ char = "~"
            THEN [_select_graphic_rendition(
                      [A1 EXCEPT !.in_escape_sequence = FALSE], A1.escape_sequence)
                  EXCEPT !.escape_sequence = <<>>]
            ELSE A1
    ELSE IF char = ESC THEN
        [A EXCEPT !.in_escape_sequence = TRUE]
    ELSE IF A.zero_width_escape_sequence THEN
        IF char = STX
        THEN [A EXCEPT !.zero_width_escape_sequence = FALSE,
                       !._formatted_text = Append(@, Fragment(ZeroWidthEscape, A.text)),
                       !.text = <<>>]
        ELSE [A EXCEPT !.text = @ \o <<char>>]
    ELSE IF char = SOH THEN
        [FlushText(A) EXCEPT !.zero_width_escape_sequence = TRUE]
    ELSE [A EXCEPT !.text = @ \o <<char>>]

\* One send() into ANSI._parse_corot: the loop body for one character
\* (lines 52-77).  The local `style` is assigned once, at line 46.
_parse_corot(A, char) ==
    IF A.in_escape_sequence THEN
        LET A1 == [A EXCEPT !.escape_sequence = @ \o <<char>>]
        IN  IF isalpha(char) \/ char = "~"
            THEN [_select_graphic_rendition(
                      [A1 EXCEPT !.in_escape_sequence = FALSE], A1.escape_sequence)
                  EXCEPT !.escape_sequence = <<>>]
            ELSE A1
    ELSE IF A.zero_width_escape_sequence THEN
        IF char = STX
        THEN [A EXCEPT !.zero_width_escape_sequence = FALSE,
                       !._formatted_text = Append(@, Fragment(ZeroWidthEscape, A.text)),
                       !.text = <<>>]
        ELSE [A EXCEPT !.text = @ \o <<char>>]
    ELSE IF char = SOH THEN
        [FlushText(A) EXCEPT !.zero_width_escape_sequence = TRUE]
    ELSE IF char = ESC THEN
        [FlushText(A) EXCEPT !.in_escape_sequence = TRUE]
    ELSE [A EXCEPT !.text = @ \o <<char>>]

\* The attributes ANSI.__init__ sets before parsing (lines 25-37), with
\* the coroutine's locals (lines 45-50).
ANSI_new(value) ==
    [value |-> value, _formatted_text |-> <<>>,
     _color |-> None, _bgcolor |-> None, _bold |-> FALSE, _underline |-> FALSE,
     _strike |-> FALSE, _italic |-> FALSE, _blink |-> FALSE, _reverse |-> FALSE,
     _hidden |-> FALSE,
     style |-> <<>>, text |-> <<>>, in_escape_sequence |-> FALSE,
     escape_sequence |-> <<>>, zero_width_escape_sequence |-> FALSE,
     raised |-> ""]

\* for c in value: parser.send(c)  (lines 38-39); an exception ends it.
\* Nothing runs after the last send: the coroutine stays suspended.
RECURSIVE send_all(_, _)
send_all(A, str) ==
    IF str = <<>> \/ A.raised # "" THEN A
    ELSE send_all(_parse_corot(A, Head(str)), Tail(str))

\* ANSI.__init__
ANSI(value) == send_all(ANSI_new(value), value)

\* ANSI.__pt_formatted_text__
__pt_formatted_text__(A) == A._formatted_text

\* The strings ANSI objects are built from: up to MaxTokens of these.
AnsiTokens ==
    { <<ESC, "[", "3", "1", "m">>,
      <<ESC, "[", "0", "m">>,
      <<ESC, "[", "1", ";", "4", "2", "m">>,
      <<"r", "e", "d">>,
      <<" ", "p", "l", "a", "i", "n">>,
      <<SOH, "z", STX>>,
      <<ESC, "[", "2", "J">>,
      <<ESC, "[", "3", ";", "4", ";", "5", ";", "7", ";", "8", "m">>,
      <<ESC, "[", "9", "5", ";", "1", "0", "4", "m">>,
      <<"a", SOH, ESC, "[", "1", "m", STX>> }

RECURSIVE Concat(_)
Concat(seqs) == IF seqs = <<>> THEN <<>> ELSE Head(seqs) \o Concat(Tail(seqs))

AnsiInputs == {Concat(ts) : ts \in SeqsUpTo(AnsiTokens, MaxTokens)}

NoObject == [raised |-> "not constructed"]

\* ANSI(value)
AnsiConstruct ==
    /\ ansi_obj = NoObject
    /\ ansi_obj' = ANSI(ansi_value)
    /\ UNCHANGED <<ansi_value, vt_vars, tn_vars, fmt_vars, pane_vars, gen_vars, layout_vars>>

(***************************************************************************)
(* ANSI.format and ANSI.__mod__ (formatted_text/ansi.py)                   *)
(***************************************************************************)
BS == "\\b"

\* str.replace(old, new) for one-character old and new
replace(text, old, new) ==
    [i \in 1..Len(text) |-> IF text[i] = old THEN new ELSE text[i]]

ansi_escape_none(text) == text

\* ansi_escape: text.replace('\x1b', '?').replace('\b', '?')
ansi_escape(text) == replace(replace(text, ESC, "?"), BS, "?")

\* A keyword-argument dict is a sequence of <<name, value>> pairs.
dict_has(kwargs, name) == \E i \in 1..Len(kwargs) : kwargs[i][1] = name
dict_get(kwargs, name) ==
    kwargs[CHOOSE i \in 1..Len(kwargs) : kwargs[i][1] = name][2]

StrResult(v) == [v |-> v, auto |-> 0, numbering |-> "", raised |-> ""]

IndexOf(s, c) ==
    IF \E i \in 1..Len(s) : s[i] = c
    THEN CHOOSE i \in 1..Len(s) : s[i] = c /\ \A j \in 1..(i - 1) : s[j] # c
    ELSE 0

\* One replacement field '{name}' of str.format: '' takes the next
\* positional argument, a digit the argument of that index, anything else
\* is a keyword name.  Mixing '' and digits is a ValueError.
format_field(st, name, args, kwargs) ==
    IF name = <<>> THEN
        IF st.numbering = "manual" THEN [st EXCEPT !.raised = "ValueError"]
        ELSE IF st.auto >= Len(args) THEN [st EXCEPT !.raised = "IndexError"]
        ELSE [st EXCEPT !.v = @ \o args[st.auto + 1], !.auto = @ + 1,
                        !.numbering = "auto"]
    ELSE IF Len(name) = 1 /\ IsDigit(name[1]) THEN
        IF st.numbering = "auto" THEN [st EXCEPT !.raised = "ValueError"]
        ELSE IF DigitValue(name[1]) >= Len(args)
             THEN [st EXCEPT !.raised = "IndexError"]
        ELSE [st EXCEPT !.v = @ \o args[DigitValue(name[1]) + 1],
                        !.numbering = "manual"]
    ELSE IF Len(name) = 1 /\ dict_has(kwargs, name[1])
         THEN [st EXCEPT !.v = @ \o dict_get(kwargs, name[1])]
    ELSE [st EXCEPT !.raised = "KeyError"]

\* str.format(*args, **kwargs), for templates whose fields carry no
\* conversion and no format spec: '{{' and '}}' are literal braces.
RECURSIVE str_format_from(_, _, _, _)
str_format_from(st, s, args, kwargs) ==
    IF s = <<>> \/ st.raised # "" THEN st
    ELSE IF Len(s) >= 2 /\ s[1] \in {"{", "}"} /\ s[2] = s[1]
         THEN str_format_from([st EXCEPT !.v = Append(@, s[1])],
                              Tail_(s, 3), args, kwargs)
    ELSE IF s[1] = "}" THEN [st EXCEPT !.raised = "ValueError"]
    ELSE IF s[1] = "{" THEN
        IF IndexOf(s, "}") = 0 THEN [st EXCEPT !.raised = "ValueError"]
        ELSE str_format_from(
                 format_field(st, SubSeq(s, 2, IndexOf(s, "}") - 1),
                              args, kwargs),
                 Tail_(s, IndexOf(s, "}") + 1), args, kwargs)
    ELSE str_format_from([st EXCEPT !.v = Append(@, s[1])],
                         Tail(s), args, kwargs)

str_format(s, args, kwargs) == str_format_from(StrResult(<<>>), s, args, kwargs)

\* str % tuple, for the conversions '%s' and '%%'; `auto` counts the
\* values used so far.
RECURSIVE str_mod_from(_, _, _)
str_mod_from(st, s, value) ==
    IF st.raised # "" THEN st
    ELSE IF s = <<>> THEN
        IF st.auto < Len(value) THEN [st EXCEPT !.raised = "TypeError"] ELSE st
    ELSE IF s[1] # "%" THEN
        str_mod_from([st EXCEPT !.v = Append(@, s[1])], Tail(s), value)
    ELSE IF Len(s) = 1 THEN [st EXCEPT !.raised = "ValueError"]
    ELSE IF s[2] = "%" THEN
        str_mod_from([st EXCEPT !.v = Append(@, "%")], Tail_(s, 3), value)
    ELSE IF s[2] = "s" THEN
        IF st.auto >= Len(value) THEN [st EXCEPT !.raised = "TypeError"]
        ELSE str_mod_from([st EXCEPT !.v = @ \o value[st.auto + 1],
                                     !.auto = @ + 1],
                          Tail_(s, 3), value)
    ELSE [st EXCEPT !.raised = "ValueError"]

str_mod(s, value) == str_mod_from(StrResult(<<>>), s, value)

\* ANSI(<str result>): an exception of the string operation leaves the
\* method before any object is built.
ANSI_of(r) == IF r.raised # "" THEN [raised |-> r.raised] ELSE ANSI(r.v)

\* ANSI.format(*args, **kwargs)
format(A, args, kwargs) ==
    LET escaped_args == [i \in 1..Len(args) |-> ansi_escape(args[i])]
        escaped_kwargs ==
            [i \in 1..Len(kwargs) |-> <<kwargs[i][1], ansi_escape(kwargs[i][2])>>]
    IN  ANSI_of(str_format(A.value, escaped_args, escaped_kwargs))

\* ANSI.__mod__(value); `value` is [tuple |-> TRUE, v |-> the tuple] or
\* [tuple |-> FALSE, v |-> <<the object>>], which is wrapped into a 1-tuple.
__mod__(A, value) ==
    LET tup == IF value.tuple THEN value.v ELSE <<value.v[1]>>
        escaped == [i \in 1..Len(tup) |-> ansi_escape(tup[i])]
    IN  ANSI_of(str_mod(A.value, escaped))

\* The templates format and % are called on, and the values interpolated.
FmtTemplates ==
    { <<"a", "{", "}", "b">>,
      <<ESC, "[", "3", "1", "m", "{", "0", "}", ESC, "[", "0", "m">>,
      <<"{", "k", "}", ESC, "[", "1", "m", "x">>,
      <<"a", BS, "{", "{", "}", "}", "{", "}">>,
      <<SOH, "{", "}", STX, "c">>,
      <<ESC, "[", "3", "1", "m", "%", "s">>,
      <<"%", "s", "b", "%", "%", "%", "s">>,
      <<SOH, "%", "s", STX, BS>> }

FmtArgs ==
    { <<"q">>, <<ESC, "[", "3", "1", "m">>, <<"x", BS>>, <<SOH, "z", STX>> }

FmtKwargs == {<<>>} \cup {<< <<"k", v>> >> : v \in FmtArgs}

NoCall == [op |-> "none"]

\* ansi_obj.format(*args, **kwargs)
AnsiFormat ==
    /\ ansi_obj # NoObject
    /\ ansi_obj.raised = ""
    /\ \E args \in SeqsUpTo(FmtArgs, MaxArgs), kwargs \in FmtKwargs :
          /\ args = <<>> \/ kwargs = <<>>
          /\ fmt_last' = [op |-> "format",
                          args |-> args \o [i \in 1..Len(kwargs) |-> kwargs[i][2]],
                          result |-> format(ansi_obj, args, kwargs)]
    /\ fmt_prev' = fmt_last
    /\ UNCHANGED <<ansi_vars, vt_vars, tn_vars, pane_vars, gen_vars, layout_vars>>

\* ansi_obj % value
AnsiMod ==
    /\ ansi_obj # NoObject
    /\ ansi_obj.raised = ""
    /\ \E value \in {[tuple |-> FALSE, v |-> <<a>>] : a \in FmtArgs}
                       \cup {[tuple |-> TRUE, v |-> t] :
                                t \in SeqsUpTo(FmtArgs, MaxArgs)} :
          fmt_last' = [op |-> "mod",
                       args |-> value.v,
                       result |-> __mod__(ansi_obj, value)]
    /\ fmt_prev' = fmt_last
    /\ UNCHANGED <<ansi_vars, vt_vars, tn_vars, pane_vars, gen_vars, layout_vars>>

(***************************************************************************)
(* =========================  ScrollablePane  ============================ *)
(* layout/scrollable_pane.py.  One render pass is one call of              *)
(* write_to_screen; what the content draws on the off-screen canvas (its   *)
(* height, the cursor position, the focused window's position) is the      *)
(* input of the pass.                                                      *)
(***************************************************************************)
Point(x, y) == [is_none |-> FALSE, x |-> x, y |-> y]
NoPoint == [is_none |-> TRUE, x |-> 0, y |-> 0]

WritePosition(xpos, ypos, width, height) ==
    [xpos |-> xpos, ypos |-> ypos, width |-> width, height |-> height]

ScrollOffsets(top, bottom) == [top |-> top, bottom |-> bottom]

min(a, b) == IF a <= b THEN a ELSE b
max(a, b) == IF a >= b THEN a ELSE b

\* range(n)
range(n) == 0..(n - 1)

\* ScrollablePane.__init__
ScrollablePane(keep_cursor_visible, keep_focused_window_visible) ==
    [scroll_offsets |-> ScrollOffsets(1, 1),
     keep_cursor_visible |-> keep_cursor_visible,
     keep_focused_window_visible |-> keep_focused_window_visible,
     show_scrollbar |-> TRUE,
     display_arrows |-> TRUE,
     vertical_scroll |-> 0]

\* The if/elif of the cursor rule (lines 161-176).
CursorRule(P, visible_height, virtual_height, cursor_y) ==
    LET top == P.scroll_offsets.top
        bottom == P.scroll_offsets.bottom
    IN  IF cursor_y < P.vertical_scroll + top
        THEN [P EXCEPT !.vertical_scroll = max(0, cursor_y - top)]
        ELSE IF cursor_y >= P.vertical_scroll + visible_height - bottom
        THEN [P EXCEPT !.vertical_scroll =
                 min(virtual_height - visible_height,
                     cursor_y - visible_height + bottom + 1)]
        ELSE P

\* The if/elif of the focused-window rule (lines 178-185).
FocusRule(P, visible_height, visible_win_write_pos) ==
    LET win_top == visible_win_write_pos.ypos
        win_bottom == visible_win_write_pos.ypos + visible_win_write_pos.height
    IN  IF win_top < P.vertical_scroll
        THEN [P EXCEPT !.vertical_scroll = win_top]
        ELSE IF win_bottom > P.vertical_scroll + visible_height
        THEN [P EXCEPT !.vertical_scroll = win_bottom - visible_height]
        ELSE P

\* ScrollablePane._make_window_visible
_make_window_visible(P, visible_height, virtual_height, visible_win_write_pos, cursor_position) ==
    IF cursor_position.is_none THEN P
    ELSE LET P1 == IF P.keep_cursor_visible
                   THEN CursorRule(P, visible_height, virtual_height,
                                   cursor_position.y)
                   ELSE P
         IN  IF P.keep_focused_window_visible
             THEN FocusRule(P1, visible_height, visible_win_write_pos)
             ELSE P1

\* ScrollablePane._clip_point_to_visible_area
_clip_point_to_visible_area(P, point, write_position) ==
    Point(max(0, min(point.x, write_position.width - 1)),
          max(0, min(point.y - P.vertical_scroll, write_position.height - 1)))

\* ScrollablePane._copy_over_mouse_handlers: the real screen's handler
\* table after the copy, each copied cell <<screen_y, screen_x>> holding
\* the handler object of the canvas cell <<temp_y, temp_x>>.
\* `rows` is len(temp_mouse_handlers.mouse_handlers).
_copy_over_mouse_handlers(P, rows, write_position, virtual_width) ==
    LET ys == range(min(write_position.height, rows))
        xs == range(min(write_position.width, virtual_width))
        cells == {<<write_position.ypos + y, write_position.xpos + x>> :
                      y \in ys, x \in xs}
    IN  [c \in cells |->
            <<(c[1] - write_position.ypos) + P.vertical_scroll,
              c[2] - write_position.xpos>>]

\* Char(char, style); a cell the content drew on the canvas is named by
\* its canvas row and column.
Char(char, style) == [char |-> char, style |-> style, y |-> -1, x |-> -1]
CanvasChar(temp_y, temp_x) == [char |-> "canvas", style |-> "canvas", y |-> temp_y, x |-> temp_x]

\* Screen(): the cells and window positions written so far, none.
Screen ==
    [data_buffer |-> <<>>, zero_width_escapes |-> <<>>,
     visible_windows_to_write_positions |-> <<>>]

\* The function f with the cells of g set to g's values (a run of item
\* assignments).
Assign(f, g) ==
    [c \in DOMAIN f \cup DOMAIN g |-> IF c \in DOMAIN g THEN g[c] ELSE f[c]]

\* ScrollablePane._copy_over_screen: the screen after the copy; cell
\* <<screen_y, screen_x>> receives the canvas cell <<temp_y, temp_x>> in
\* both tables.
_copy_over_screen(P, S, temp_height, write_position, virtual_width) ==
    LET ys == range(min(write_position.height, temp_height - P.vertical_scroll))
        xs == range(min(write_position.width, virtual_width))
        cells == {<<write_position.ypos + y, write_position.xpos + x>> :
                      y \in ys, x \in xs}
        copied == [c \in cells |->
                      CanvasChar((c[1] - write_position.ypos) + P.vertical_scroll,
                                 c[2] - write_position.xpos)]
    IN  [S EXCEPT !.data_buffer = Assign(@, copied),
                  !.zero_width_escapes = Assign(@, copied)]

\* The translation without the scroll offset.
_copy_over_write_positions_unscrolled(P, S, positions, write_position) ==
    [S EXCEPT !.visible_windows_to_write_positions =
        Assign(@, [w \in DOMAIN positions |->
            WritePosition(positions[w].xpos + write_position.xpos,
                          positions[w].ypos + write_position.ypos,
                          positions[w].width, positions[w].height)])]

\* ScrollablePane._copy_over_write_positions; `positions` is
\* temp_screen.visible_windows_to_write_positions.
_copy_over_write_positions(P, S, positions, write_position) ==
    [S EXCEPT !.visible_windows_to_write_positions =
        Assign(@, [w \in DOMAIN positions |->
            WritePosition(positions[w].xpos + write_position.xpos,
                          positions[w].ypos - P.vertical_scroll + write_position.ypos,
                          positions[w].width, positions[w].height)])]

\* int(n / float(d) * m) for n, m >= 0 and d > 0: the double-precision
\* product truncated towards zero, which is the integer quotient for the
\* sizes of the model.
int_fraction(n, d, m) == (n * m) \div d

\* The thumb one row too long.
scrollbar_size_ceil(write_position, content_height) ==
    max(1, int_fraction(write_position.height, content_height, write_position.height) + 1)

\* scrollbar_size of _draw_scrollbar (lines 201-203)
scrollbar_size(write_position, content_height) ==
    max(1, int_fraction(write_position.height, content_height, write_position.height))

\* scrollbar_start of _draw_scrollbar (lines 205-206)
scrollbar_start(P, write_position, content_height) ==
    int_fraction(P.vertical_scroll, content_height, write_position.height)

\* ScrollablePane._draw_scrollbar: background, then thumb, then arrows.
_draw_scrollbar(P, S, write_position, content_height) ==
    IF ~P.show_scrollbar \/ ~(content_height > write_position.height) THEN S
    ELSE LET scrollbar_height == write_position.height
             x == write_position.xpos + write_position.width - 1
             y == write_position.ypos
                      + scrollbar_start(P, write_position, content_height)
             background ==
                 [c \in {<<write_position.ypos + i, x>> : i \in range(scrollbar_height)}
                     |-> Char("|", "class:scrollbar.background")]
             thumb ==
                 [c \in {<<y + i, x>> :
                            i \in range(scrollbar_size(write_position, content_height))}
                     |-> Char("|", "class:scrollbar")]
             arrows ==
                 [c \in {<<write_position.ypos, x>>,
                         <<write_position.ypos + scrollbar_height - 1, x>>} |->
                     IF c = <<write_position.ypos + scrollbar_height - 1, x>>
                     THEN Char("v", "class:scrollbar.arrow")
                     ELSE Char("^", "class:scrollbar.arrow")]
             drawn == Assign(Assign(S.data_buffer, background), thumb)
         IN  [S EXCEPT !.data_buffer =
                 IF P.display_arrows THEN Assign(drawn, arrows) ELSE drawn]

\* temp_screen.visible_windows_to_write_positions: the content's one
\* window and where it drew itself on the canvas.
visible_windows_to_write_positions(temp_screen) ==
    [w \in {"window"} |-> temp_screen.focused]

\* ScrollablePane.write_to_screen.  temp_screen is the canvas the content
\* has drawn: its height, the cursor position it reports and the focused
\* window's write position.  The result is the pane, the real screen and
\* its mouse handlers after the pass.
write_to_screen(P, temp_screen, write_position) ==
    LET visible_height ==
            min(write_position.height, temp_screen.height - P.vertical_scroll)
        S1 == _copy_over_screen(P, Screen, temp_screen.height, write_position,
                                write_position.width)
        S2 == _copy_over_write_positions(P, S1,
                  visible_windows_to_write_positions(temp_screen), write_position)
        S3 == IF P.show_scrollbar /\ temp_screen.height > write_position.height
              THEN _draw_scrollbar(P, S2, write_position, temp_screen.height)
              ELSE S2
        cursor_position == temp_screen.cursor_position
    IN  [mouse_handlers |->
            _copy_over_mouse_handlers(P, temp_screen.height, write_position,
                                      write_position.width),
         screen |-> S3,
         visible_height |-> visible_height,
         pane |-> _make_window_visible(P, visible_height, temp_screen.height,
                                       write_position, cursor_position)]

\* What the content can draw on the canvas: a height, the cursor on one of
\* its rows and a focused window of one or two rows holding the cursor row
\* (without a cursor, the window is the first row).
FocusedAt(h, r) ==
    {WritePosition(0, p[1], 1, p[2]) :
        p \in {q \in ({r - 1, r} \cap 0..(h - 1)) \X {1, 2} :
                   q[1] + q[2] <= h /\ r < q[1] + q[2]}}

TempScreens ==
    UNION {
        {[height |-> h, cursor_position |-> NoPoint,
          focused |-> WritePosition(0, 0, 1, 1)]}
        \cup UNION {
            {[height |-> h, cursor_position |-> Point(0, r), focused |-> f] :
                f \in FocusedAt(h, r)} : r \in 0..(h - 1)}
        : h \in 1..MaxH}

\* Where the parent puts the pane on the real screen: <<xpos, ypos, width>>
\* and the viewport heights.
PaneRectangles == {<<0, 0, 2>>, <<2, 1, 2>>}
ViewportHeights == {1, 2, 3}

PanePositions ==
    {WritePosition(o[1], o[2], o[3], v) :
        o \in PaneRectangles, v \in ViewportHeights}

NoPass == [done |-> FALSE]
NoEvent == [dispatched |-> FALSE]

\* pane.write_to_screen(screen, mouse_handlers, write_position, ...).
\* The code puts no bound on vertical_scroll; runs are followed while it
\* stays within MaxScroll.
PaneWriteToScreen ==
    \E ts \in TempScreens, wp \in PanePositions :
        /\ LET r == write_to_screen(pane, ts, wp)
           IN  /\ r.pane.vertical_scroll \in -MaxScroll..MaxScroll
               /\ pane' = r.pane
               /\ mouse_handlers' = r.mouse_handlers
               /\ screen' = r.screen
               /\ pane_pass' = [done |-> TRUE, temp_screen |-> ts,
                                write_position |-> wp,
                                visible_height |-> r.visible_height,
                                scroll_before |-> pane.vertical_scroll]
        /\ pane_event' = NoEvent
        /\ UNCHANGED <<vt_vars, tn_vars, ansi_vars, fmt_vars, gen_vars, layout_vars>>

\* The application dispatches a mouse event at a cell of the real screen
\* that holds a handler copied by the pane: handler(mouse_event), the
\* event carrying the position of that cell.
PaneMouseEvent ==
    /\ pane_pass.done
    /\ \E c \in DOMAIN mouse_handlers :
          pane_event' = [dispatched |-> TRUE, handler |-> mouse_handlers[c],
                         position |-> Point(c[2], c[1])]
    /\ UNCHANGED <<pane, pane_pass, mouse_handlers, screen,
                   vt_vars, tn_vars, ansi_vars, fmt_vars, gen_vars, layout_vars>>

(***************************************************************************)
(* ==================  generator_to_async_generator  ===================== *)
(* eventloop/async_generator.py.  The producer runs on a worker thread,    *)
(* the consumer is the coroutine iterating the async generator; each       *)
(* action is one step of one of them.  get_iterable() yields the items     *)
(* 1..n and then stops or raises.                                          *)
(***************************************************************************)
Item(i) == [done |-> FALSE, v |-> i]

\* _Done()
_Done == [done |-> TRUE, v |-> 0]

\* isinstance(item, _Done)
isinstance_Done(item) == item.done

\* Queue(maxsize).full()
full(q, maxsize) == Len(q) >= maxsize

\* The locals of producer(): pc is where the thread is, i the number of
\* items taken from the iterable, exc the exception in flight (then the
\* one the thread ended with), sentinels how many times _Done was put.
producer_start ==
    [pc |-> "for", i |-> 0, exc |-> "", sentinels |-> 0]

\* The async generator: suspended at the await of line 52.
consumer_start ==
    [pc |-> "await_producer", received |-> <<>>, exc |-> ""]

\* for item in get_iterable()   (line 42)
ProducerFor ==
    /\ gen_producer.pc = "for"
    /\ gen_producer' =
         IF gen_producer.i < gen_cfg.n
         THEN [gen_producer EXCEPT !.pc = "put", !.i = @ + 1]
         ELSE IF gen_cfg.raises
         THEN [gen_producer EXCEPT !.pc = "finally", !.exc = "ProducerError"]
         ELSE [gen_producer EXCEPT !.pc = "finally"]
    /\ UNCHANGED <<gen_cfg, gen_queue, gen_consumer>>
    /\ UNCHANGED <<vt_vars, tn_vars, ansi_vars, fmt_vars, pane_vars, layout_vars>>

\* queue.put(item, block=False); break   (lines 45-46)
ProducerPut ==
    /\ gen_producer.pc = "put"
    /\ ~full(gen_queue, gen_cfg.buffer_size)
    /\ gen_queue' = Append(gen_queue, Item(gen_producer.i))
    /\ gen_producer' = [gen_producer EXCEPT !.pc = "for"]
    /\ UNCHANGED <<gen_cfg, gen_consumer>>
    /\ UNCHANGED <<vt_vars, tn_vars, ansi_vars, fmt_vars, pane_vars, layout_vars>>

\* except Full: time.sleep(0.01)   (lines 47-48).  The module does not
\* import time: the handler raises NameError, which leaves both loops.
ProducerFull ==
    /\ gen_producer.pc = "put"
    /\ full(gen_queue, gen_cfg.buffer_size)
    /\ gen_producer' = [gen_producer EXCEPT !.pc = "finally", !.exc = "NameError"]
    /\ UNCHANGED <<gen_cfg, gen_queue, gen_consumer>>
    /\ UNCHANGED <<vt_vars, tn_vars, ansi_vars, fmt_vars, pane_vars, layout_vars>>

\* finally: queue.put(_Done(), block=True)   (lines 49-50): waits for a
\* free slot; the thread ends with the exception in flight, if any.
ProducerFinally ==
    /\ gen_producer.pc = "finally"
    /\ ~full(gen_queue, gen_cfg.buffer_size)
    /\ gen_queue' = Append(gen_queue, _Done)
    /\ gen_producer' = [gen_producer EXCEPT !.pc = "returned", !.sentinels = @ + 1]
    /\ UNCHANGED <<gen_cfg, gen_consumer>>
    /\ UNCHANGED <<vt_vars, tn_vars, ansi_vars, fmt_vars, pane_vars, layout_vars>>

\* await run_in_executor_with_context(producer)   (line 52): resumes when
\* the thread has ended, with its exception if it ended with one.
ConsumerAwaitProducer ==
    /\ gen_consumer.pc = "await_producer"
    /\ gen_producer.pc = "returned"
    /\ gen_consumer' =
         IF gen_producer.exc # ""
         THEN [gen_consumer EXCEPT !.pc = "raised", !.exc = gen_producer.exc]
         ELSE [gen_consumer EXCEPT !.pc = "get"]
    /\ UNCHANGED <<gen_cfg, gen_queue, gen_producer>>
    /\ UNCHANGED <<vt_vars, tn_vars, ansi_vars, fmt_vars, pane_vars, layout_vars>>

\* item = await loop.run_in_executor(None, queue.get); break on _Done,
\* else yield item   (lines 54-58)
ConsumerGet ==
    /\ gen_consumer.pc = "get"
    /\ gen_queue # <<>>
    /\ gen_queue' = Tail(gen_queue)
    /\ gen_consumer' =
         IF isinstance_Done(Head(gen_queue))
         THEN [gen_consumer EXCEPT !.pc = "ended"]
         ELSE [gen_consumer EXCEPT !.received = Append(@, Head(gen_queue).v)]
    /\ UNCHANGED <<gen_cfg, gen_producer>>
    /\ UNCHANGED <<vt_vars, tn_vars, ansi_vars, fmt_vars, pane_vars, layout_vars>>

\* The consumer stops early: suspended at the yield of line 58 after it
\* received an item, the async generator is closed and never resumed.
ConsumerStop ==
    /\ gen_consumer.pc = "get"
    /\ gen_consumer.received # <<>>
    /\ gen_consumer' = [gen_consumer EXCEPT !.pc = "closed"]
    /\ UNCHANGED <<gen_cfg, gen_queue, gen_producer>>
    /\ UNCHANGED <<vt_vars, tn_vars, ansi_vars, fmt_vars, pane_vars, layout_vars>>

\* The calls generator_to_async_generator(get_iterable, buffer_size).
GenCalls ==
    {[n |-> n, raises |-> r, buffer_size |-> b] :
        n \in 0..MaxItems, r \in BOOLEAN, b \in 1..MaxBuffer}

GenIdle == {[n |-> 0, raises |-> FALSE, buffer_size |-> 1]}

(***************************************************************************)
(* ======================  Layout focus and search  ====================== *)
(* layout/layout.py and search.py.  The container and control classes are  *)
(* not part of the source tree; the layout of the model is an HSplit that  *)
(* holds three windows: w1 shows BufferControl bc (buffer "b1", searched   *)
(* through sc), w2 shows a plain UIControl c2, and w3 shows the            *)
(* SearchBufferControl sc (buffer "search").  Objects are named by         *)
(* strings, a buffer by its name.                                          *)
(***************************************************************************)
MaxCalls == 3

\* Layout.find_all_windows: the windows in walk order.
find_all_windows == <<"w1", "w2", "w3">>

\* Window.content
content(w) == CASE w = "w1" -> "bc" [] w = "w2" -> "c2" [] w = "w3" -> "sc"

\* isinstance(c, BufferControl); SearchBufferControl is a BufferControl.
isinstance_BufferControl(c) == c \in {"bc", "sc"}
isinstance_SearchBufferControl(c) == c = "sc"

\* BufferControl.buffer (.name)
buffer(c) == CASE c = "bc" -> "b1" [] c = "sc" -> "search" [] OTHER -> "None"

\* BufferControl._search_buffer_control
_search_buffer_control(c) == IF c = "bc" THEN "sc" ELSE "None"

\* UIControl.is_focusable()
is_focusable(c) == c # "c2"

\* A focusable element, tagged with the class isinstance() finds.
Element(kind, id) == [kind |-> kind, id |-> id]
NoElement == Element("None", "None")

\* The first window of the layout among `matching`, as the `for w in
\* self.find_all_windows()` loops find it; "None" when the loop ends.
find_window(matching) ==
    LET S == {i \in DOMAIN find_all_windows : find_all_windows[i] \in matching}
    IN  IF S = {} THEN "None"
        ELSE find_all_windows[CHOOSE i \in S : \A j \in S : i <= j]

Windows == {find_all_windows[i] : i \in DOMAIN find_all_windows}

\* Layout.focus (lines 61-90).  The str, Buffer, UIControl and container
\* branches return after appending; the Window branch (line 81) appends
\* and falls through to line 90, which empties the stack.
focus(L, value) ==
    LET w == CASE value.kind = "str" ->
                    find_window({x \in Windows : isinstance_BufferControl(content(x))
                                           /\ buffer(content(x)) = value.id})
               [] value.kind = "Buffer" ->
                    find_window({x \in Windows : isinstance_BufferControl(content(x))
                                           /\ buffer(content(x)) = value.id})
               [] value.kind = "UIControl" ->
                    find_window({x \in Windows : content(x) = value.id})
               [] value.kind = "Window" -> "None"
               [] OTHER ->
                    find_window({x \in Windows : is_focusable(content(x))})
    IN  IF value.kind = "Window"
        THEN [[L EXCEPT !._stack = Append(@, value.id)] EXCEPT !._stack = <<>>]
        ELSE IF w # "None" THEN [L EXCEPT !._stack = Append(@, w)]
        ELSE [L EXCEPT !._stack = <<>>]

\* Layout.has_focus (lines 97-100): `self._stack and ...` as a truth
\* value; a control compares equal to itself only.
has_focus(L, value) ==
    IF value.kind = "Window"
    THEN L._stack # <<>> /\ L._stack[Len(L._stack)] = value.id
    ELSE L._stack # <<>>
         /\ Element("UIControl", content(L._stack[Len(L._stack)])) = value

\* Layout.current_control (lines 107-109).  self.container is the HSplit,
\* which has no attribute `content`.
current_control(L) ==
    IF L._stack # <<>>
    THEN [raised |-> "", v |-> content(L._stack[Len(L._stack)])]
    ELSE [raised |-> "AttributeError", v |-> "None"]

\* Layout.current_window (lines 121-123)
current_window(L) ==
    IF L._stack # <<>> THEN L._stack[Len(L._stack)] ELSE find_all_windows[1]

\* Layout.is_searching (lines 133-136)
is_searching(L) ==
    \E link \in L.search_links : isinstance_SearchBufferControl(link[1])

\* Layout.previous_control (lines 198-200)
previous_control(L) ==
    IF Len(L._stack) > 1
    THEN [raised |-> "", v |-> content(L._stack[Len(L._stack) - 1])]
    ELSE [raised |-> "AttributeError", v |-> "None"]

\* Layout.focus_last (lines 206-207)
focus_last(L) ==
    IF Len(L._stack) > 1
    THEN [L EXCEPT !._stack = SubSeq(@, 1, Len(@) - 1)]
    ELSE L

\* Layout.__init__ (lines 24-35)
Layout(focused_element) ==
    LET L0 == [_stack |-> <<>>, search_links |-> {}]
    IN  IF focused_element = NoElement
        THEN [L0 EXCEPT !._stack = Append(@, find_all_windows[1])]
        ELSE focus(L0, focused_element)

\* The names bound in search.py's module namespace when a function of it
\* runs: BufferControl, SearchBufferControl and Layout are imported under
\* `if TYPE_CHECKING:` only (lines 14-16).
search_globals ==
    {"Enum", "TYPE_CHECKING", "get_app", "FilterOrBool", "is_searching",
     "to_filter", "InputMode", "SearchDirection", "SearchState",
     "start_search", "stop_search"}

Returned(L, exc) == [layout |-> L, raised |-> exc]

\* start_search(buffer_control, direction) (lines 67-90); the search
\* state's direction is not part of the model.
start_search(L, buffer_control) ==
    LET cc == current_control(L)
        bc == IF buffer_control = "None" THEN cc.v ELSE buffer_control
        search_control == _search_buffer_control(bc)
        focused == focus(L, Element("UIControl", search_control))
    IN  IF buffer_control = "None" /\ cc.raised # "" THEN Returned(L, cc.raised)
        ELSE IF buffer_control = "None" /\ "BufferControl" \notin search_globals
        THEN Returned(L, "NameError")
        ELSE IF buffer_control = "None" /\ ~isinstance_BufferControl(bc)
        THEN Returned(L, "")
        ELSE IF "SearchBufferControl" \notin search_globals
        THEN Returned(L, "NameError")
        ELSE IF ~isinstance_SearchBufferControl(search_control)
        THEN Returned(L, "")
        ELSE Returned([focused EXCEPT !.search_links =
                          {l \in @ : l[1] # search_control}
                              \cup {<<search_control, bc>>}], "")

\* stop_search(buffer_control) (lines 96-119); the reset of the search
\* buffer's text is not part of the model.
stop_search(L, buffer_control) ==
    LET cc == current_control(L)
        bc == IF buffer_control = "None" THEN cc.v ELSE buffer_control
        search_control == _search_buffer_control(bc)
        focused == focus(L, Element("UIControl", bc))
    IN  IF buffer_control = "None" /\ cc.raised # "" THEN Returned(L, cc.raised)
        ELSE IF buffer_control = "None" /\ "BufferControl" \notin search_globals
        THEN Returned(L, "NameError")
        ELSE IF buffer_control = "None" /\ ~isinstance_BufferControl(bc)
        THEN Returned(L, "")
        ELSE IF "SearchBufferControl" \notin search_globals
        THEN Returned(L, "NameError")
        ELSE IF ~isinstance_SearchBufferControl(search_control)
        THEN Returned(L, "")
        ELSE Returned([focused EXCEPT !.search_links =
                          {l \in @ : l[1] # search_control}], "")

\* What the application passes to focus(): buffer names, buffers,
\* controls (c9 is shown by no window), windows, and the root container.
FocusValues ==
    {Element("str", n) : n \in {"b1", "search", "nope"}}
        \cup {Element("Buffer", n) : n \in {"b1", "search"}}
        \cup {Element("UIControl", c) : c \in {"bc", "c2", "sc", "c9"}}
        \cup {Element("Window", w) : w \in {"w1", "w2", "w3"}}
        \cup {Element("Container", "root")}

\* The buffer_control argument of start_search / stop_search.
SearchArgs == {"None", "bc", "sc"}

Call(op, value, exc) == [op |-> op, value |-> value, raised |-> exc, before |-> layout]

\* layout.focus(value)
LayoutFocus ==
    /\ Len(layout_calls) < MaxCalls
    /\ \E value \in FocusValues :
          /\ layout' = focus(layout, value)
          /\ layout_calls' = Append(layout_calls, Call("focus", value, ""))
    /\ UNCHANGED <<vt_vars, tn_vars, ansi_vars, fmt_vars, pane_vars, gen_vars>>

\* layout.focus_last()
LayoutFocusLast ==
    /\ Len(layout_calls) < MaxCalls
    /\ layout' = focus_last(layout)
    /\ layout_calls' = Append(layout_calls, Call("focus_last", NoElement, ""))
    /\ UNCHANGED <<vt_vars, tn_vars, ansi_vars, fmt_vars, pane_vars, gen_vars>>

\* start_search(buffer_control) with app.layout the layout.
StartSearch ==
    /\ Len(layout_calls) < MaxCalls
    /\ \E buffer_control \in SearchArgs :
          LET r == start_search(layout, buffer_control)
          IN  /\ layout' = r.layout
              /\ layout_calls' = Append(layout_calls,
                    Call("start_search", Element("UIControl", buffer_control), r.raised))
    /\ UNCHANGED <<vt_vars, tn_vars, ansi_vars, fmt_vars, pane_vars, gen_vars>>

\* stop_search(buffer_control) with app.layout the layout.
StopSearch ==
    /\ Len(layout_calls) < MaxCalls
    /\ \E buffer_control \in SearchArgs :
          LET r == stop_search(layout, buffer_control)
          IN  /\ layout' = r.layout
              /\ layout_calls' = Append(layout_calls,
                    Call("stop_search", Element("UIControl", buffer_control), r.raised))
    /\ UNCHANGED <<vt_vars, tn_vars, ansi_vars, fmt_vars, pane_vars, gen_vars>>

(***************************************************************************)
(* Specifications: one per component, the other components idle.          *)
(***************************************************************************)
\* The state after construction; a component that is not exercised gets
\* the empty input.
InitOf(vt_in, tn_in, ansi_in, pane_flags, gen_calls, focused) ==
    /\ vt_input \in vt_in
    /\ vt_pos = 0
    /\ vt_parser = Vt100Parser
    /\ vt_calls = <<>>
    /\ tn_input \in tn_in
    /\ tn_pos = 0
    /\ tn_parser = TelnetProtocolParser
    /\ ansi_value \in ansi_in
    /\ ansi_obj = NoObject
    /\ fmt_last = NoCall
    /\ fmt_prev = NoCall
    /\ \E kc \in pane_flags, kf \in pane_flags : pane = ScrollablePane(kc, kf)
    /\ pane_pass = NoPass
    /\ mouse_handlers = <<>>
    /\ pane_event = NoEvent
    /\ screen = Screen
    /\ gen_cfg \in gen_calls
    /\ gen_queue = <<>>
    /\ gen_producer = producer_start
    /\ gen_consumer = consumer_start
    /\ \E focused_element \in focused : layout = Layout(focused_element)
    /\ layout_calls = <<>>

VtInit == InitOf(VtInputs, {<<>>}, {<<>>}, {TRUE}, GenIdle, {NoElement})
VtNext == VtFeed \/ VtFlush
SpecVt == VtInit /\ [][VtNext]_vars

TnInit == InitOf({<<>>}, TelnetInputs, {<<>>}, {TRUE}, GenIdle, {NoElement})
TnNext == TnFeed
SpecTelnet == TnInit /\ [][TnNext]_vars

AnsiInit == InitOf({<<>>}, {<<>>}, AnsiInputs, {TRUE}, GenIdle, {NoElement})
AnsiNext == AnsiConstruct
SpecAnsi == AnsiInit /\ [][AnsiNext]_vars

FmtInit == InitOf({<<>>}, {<<>>}, FmtTemplates, {TRUE}, GenIdle, {NoElement})
FmtNext == AnsiConstruct \/ AnsiFormat \/ AnsiMod
SpecAnsiFormat == FmtInit /\ [][FmtNext]_vars

PaneInit == InitOf({<<>>}, {<<>>}, {<<>>}, BOOLEAN, GenIdle, {NoElement})
PaneNext == PaneWriteToScreen \/ PaneMouseEvent
SpecPane == PaneInit /\ [][PaneNext]_vars

GenInit == InitOf({<<>>}, {<<>>}, {<<>>}, {TRUE}, GenCalls, {NoElement})
GenNext ==
    \/ ProducerFor
    \/ ProducerPut
    \/ ProducerFull
    \/ ProducerFinally
    \/ ConsumerAwaitProducer
    \/ ConsumerGet
    \/ ConsumerStop
SpecGen == GenInit /\ [][GenNext]_vars

LayoutInit == InitOf({<<>>}, {<<>>}, {<<>>}, {TRUE}, GenIdle, {NoElement} \cup FocusValues)
LayoutNext == LayoutFocus \/ LayoutFocusLast \/ StartSearch \/ StopSearch
SpecLayout == LayoutInit /\ [][LayoutNext]_vars

(***************************************************************************)
(* ======================  Properties: VT100 parser  ===================== *)
(***************************************************************************)
VtOnlyFeeds == \A i \in 1..Len(vt_calls) : vt_calls[i] = "feed"

\* The run was feed(c1); ...; feed(ck); flush() over the whole input.
VtFedAllThenFlushed ==
    /\ vt_pos = Len(vt_input)
    /\ Len(vt_calls) >= 1
    /\ vt_calls[Len(vt_calls)] = "flush"
    /\ \A i \in 1..(Len(vt_calls) - 1) : vt_calls[i] = "feed"

\* The data of the top-level handler calls, concatenated in order.
RECURSIVE HandledData(_)
HandledData(h) == IF h = <<>> THEN <<>> ELSE Head(h).data \o HandledData(Tail(h))

\* C1: chunking invariance.  After the input was fed in any split into
\* chunks and then flushed, the callback has received exactly the KeyPress
\* sequence that feed(s); flush() on a fresh parser delivers.
C1_ChunkingInvariance ==
    VtFedAllThenFlushed =>
        vt_parser.keys = feed_and_flush(Vt100Parser, vt_input).keys

C1_Witness ==
    /\ VtFedAllThenFlushed
    /\ vt_input = <<ESC, "[", "A">>
    /\ vt_calls = <<"feed", "feed", "flush">>
    /\ vt_parser.keys = feed_and_flush(Vt100Parser, vt_input).keys

\* C2: feeding ESC [ A to a fresh parser invokes the callback exactly once,
\* with key Up and the three characters as data.
C2_EscBracketAIsUp ==
    (vt_input = <<ESC, "[", "A">> /\ vt_pos = 3 /\ VtOnlyFeeds) =>
        vt_parser.keys = <<KeyPress("Keys.Up", <<ESC, "[", "A">>)>>

\* C3: feed(ESC) then flush() on a fresh parser, nothing else fed, delivers
\* exactly one key event in total: Escape with data ESC.
C3_EscFlushOneEscape ==
    (vt_input = <<ESC>> /\ vt_calls = <<"feed", "flush">>) =>
        vt_parser.keys = <<KeyPress("Keys.Escape", <<ESC>>)>>

C3_Witness ==
    /\ vt_input = <<ESC>>
    /\ vt_calls = <<"feed", "flush">>
    /\ Len(vt_parser.keys) = 1

\* C4: the parser never fails to return and never drops input: at every
\* point the data handed to the handler so far, followed by what is still
\* buffered, is exactly the input fed so far; after feed(s); flush()
\* nothing is buffered, so the handled data is exactly s.
C4_NeverDropsInput ==
    /\ ~vt_parser.hung
    /\ HandledData(vt_parser.handled) \o vt_parser.prefix = SubSeq(vt_input, 1, vt_pos)
    /\ VtFedAllThenFlushed =>
          /\ vt_parser.prefix = <<>>
          /\ HandledData(vt_parser.handled) = vt_input

C4_Witness ==
    /\ VtFedAllThenFlushed
    /\ vt_input = <<ESC, "[", "x">>
    /\ HandledData(vt_parser.handled) = vt_input
    /\ Len(vt_parser.keys) = 3

(***************************************************************************)
(* ======================  Properties: Telnet parser  ==================== *)
(***************************************************************************)
TnFedAll == tn_pos = Len(tn_input)

\* The bytes handed to the data callback, concatenated in call order.
RECURSIVE CallbackBytes(_)
CallbackBytes(calls) ==
    IF calls = <<>> THEN <<>> ELSE Head(calls).v \o CallbackBytes(Tail(calls))

\* C5: IAC DO o is answered with IAC WILL o for ECHO and SUPPRESS-GO-AHEAD
\* and with IAC WONT o for any other option, and none of the three request
\* bytes is delivered as payload: the reply is all the callback receives.
C5_DoReply ==
    (tn_input \in DoFrames /\ TnFedAll) =>
        LET o == tn_input[3]
            verb == IF o \in {ECHO.v[1], SUPPRESS_GO_AHEAD.v[1]} THEN WILL ELSE WONT
        IN  /\ tn_parser.raised = ""
            /\ CallbackBytes(tn_parser.data) = IAC.v \o verb.v \o <<o>>

\* C6: IAC SB NAWS c_hi c_lo r_hi r_lo IAC SE invokes the size callback
\* exactly once with (rows=r, columns=c), when IAC SE has been consumed and
\* not before, and delivers none of these bytes to the data callback.
C6_NawsSize ==
    tn_input \in NawsFrames =>
        /\ tn_parser.data = <<>>
        /\ ~TnFedAll => tn_parser.sizes = <<>>
        /\ TnFedAll =>
              tn_parser.sizes =
                  <<[rows |-> 256 * tn_input[6] + tn_input[7],
                     columns |-> 256 * tn_input[4] + tn_input[5]]>>

\* A stream whose only use of IAC (255) is the pair IAC IAC.
RECURSIVE OnlyEscapedIAC(_)
OnlyEscapedIAC(bs) ==
    IF bs = <<>> THEN TRUE
    ELSE IF Head(bs) # 255 THEN OnlyEscapedIAC(Tail(bs))
    ELSE Len(bs) >= 2 /\ bs[2] = 255 /\ OnlyEscapedIAC(Tail(Tail(bs)))

\* The stream with each IAC IAC pair replaced by one byte 255.
RECURSIVE Unescaped(_)
Unescaped(bs) ==
    IF bs = <<>> THEN <<>>
    ELSE IF Head(bs) = 255 THEN <<255>> \o Unescaped(Tail(Tail(bs)))
    ELSE <<Head(bs)>> \o Unescaped(Tail(bs))

\* C7: for a stream whose only IAC use is IAC IAC, the bytes passed to the
\* data callback are the input with each IAC IAC pair replaced by one 255.
C7_PayloadDecoding ==
    (OnlyEscapedIAC(tn_input) /\ TnFedAll) =>
        /\ tn_parser.raised = ""
        /\ CallbackBytes(tn_parser.data) = Unescaped(tn_input)

\* C8: the parser never stops on malformed input: feed does not raise, and
\* after IAC plus an unrecognised command byte a following IAC DO ECHO is
\* recognised as a command and answered with WILL ECHO, its bytes not
\* being delivered as payload.
C8_Resynchronises ==
    /\ tn_parser.raised = ""
    /\ (tn_input \in ResyncStreams /\ TnFedAll) =>
          /\ tn_parser.pc = "d"
          /\ \E i \in 1..Len(tn_parser.data) :
                tn_parser.data[i].v \in {WILL.v \o ECHO.v, IAC.v \o WILL.v \o ECHO.v}
          /\ \A i \in 1..Len(tn_parser.data) : tn_parser.data[i] # PyBytes(DO.v)

(***************************************************************************)
(* ======================  Properties: ANSI decoder  ===================== *)
(***************************************************************************)
AnsiBuilt == ansi_obj # NoObject

RedPlain ==
    <<ESC, "[", "3", "1", "m", "r", "e", "d",
      ESC, "[", "0", "m", " ", "p", "l", "a", "i", "n">>

InSeq(x, seq) == \E i \in 1..Len(seq) : seq[i] = x

\* C9: the running SGR style is attached to the text that follows it:
\* ESC[31m 'red' ESC[0m ' plain' decodes to exactly two fragments, 'red'
\* with a style containing 'ansired' and ' plain' with the empty style.
C9_StyleFollowsSgr ==
    (AnsiBuilt /\ ansi_value = RedPlain) =>
        /\ ansi_obj.raised = ""
        /\ Len(__pt_formatted_text__(ansi_obj)) = 2
        /\ __pt_formatted_text__(ansi_obj)[1].text = <<"r", "e", "d">>
        /\ InSeq(<<"ansi", "red">>, __pt_formatted_text__(ansi_obj)[1].style)
        /\ __pt_formatted_text__(ansi_obj)[2] =
              Fragment(<<>>, <<" ", "p", "l", "a", "i", "n">>)

\* What a decoder is to keep of a string: the text outside escape
\* sequences and zero-width zones (`out`), the text run the string ends
\* with (`run`), and the mode at its end.
RECURSIVE PlainScan(_, _)
PlainScan(st, str) ==
    IF str = <<>> THEN st
    ELSE LET c == Head(str)
             nxt ==
                 CASE st.mode = "esc" ->
                        IF isalpha(c) \/ c = "~" THEN [st EXCEPT !.mode = "text"] ELSE st
                   [] st.mode = "zero" ->
                        IF c = STX THEN [st EXCEPT !.mode = "text"] ELSE st
                   [] OTHER ->
                        IF c = ESC THEN [st EXCEPT !.mode = "esc", !.run = <<>>]
                        ELSE IF c = SOH THEN [st EXCEPT !.mode = "zero", !.run = <<>>]
                        ELSE [st EXCEPT !.out = Append(@, c), !.run = Append(@, c)]
         IN  PlainScan(nxt, Tail(str))

Plain(str) == PlainScan([mode |-> "text", out |-> <<>>, run |-> <<>>], str)

EndsInOrdinaryText(str) == Plain(str).mode = "text" /\ Plain(str).run # <<>>

\* The text of the styled (not zero-width) fragments, concatenated.
RECURSIVE StyledText(_)
StyledText(ft) ==
    IF ft = <<>> THEN <<>>
    ELSE (IF Head(ft).style = ZeroWidthEscape THEN <<>> ELSE Head(ft).text)
             \o StyledText(Tail(ft))

\* C10: end-of-input flush.  For an input that ends in ordinary text the
\* final text run is the last decoded fragment, and the text of the styled
\* fragments is the input without escape sequences and zero-width zones.
C10_TrailingTextEmitted ==
    (AnsiBuilt /\ ansi_obj.raised = "" /\ EndsInOrdinaryText(ansi_value)) =>
        LET ft == __pt_formatted_text__(ansi_obj)
        IN  /\ ft # <<>>
            /\ ft[Len(ft)].text = Plain(ansi_value).run
            /\ StyledText(ft) = Plain(ansi_value).out

\* C12: the decoder never aborts on bad input: constructing an ANSI object
\* from any string, escape sequences that are not SGR included, completes
\* without raising.
C12_NeverAborts == AnsiBuilt => ansi_obj.raised = ""

Count(s, c) == Cardinality({i \in 1..Len(s) : s[i] = c})

FmtReturned(call) == call.op # "none" /\ call.result.raised = ""

Styles(A) ==
    [i \in 1..Len(__pt_formatted_text__(A)) |-> __pt_formatted_text__(A)[i].style]

PaneH == pane_pass.temp_screen.height
PaneV == pane_pass.write_position.height

\* C13: after any sequence of render passes the scroll position is within
\* the content: 0 <= vertical_scroll <= max(0, H - V), H and V being the
\* content height and viewport height of the last pass.
C13_ScrollBound ==
    pane_pass.done =>
        /\ 0 <= pane.vertical_scroll
        /\ pane.vertical_scroll <= max(0, PaneH - PaneV)

\* C14: with keep_cursor_visible set, content taller than the viewport and
\* a viewport taller than the two scroll offsets together, the scroll s
\* left by a render pass has the cursor row r inside the scroll-offset
\* window, s + top <= r < s + V - bottom, unless s is clamped at 0
\* (resp. at H - V).
C14_CursorVisible ==
    (/\ pane_pass.done
     /\ pane.keep_cursor_visible
     /\ ~pane_pass.temp_screen.cursor_position.is_none
     /\ PaneH > PaneV
     /\ PaneV > pane.scroll_offsets.top + pane.scroll_offsets.bottom) =>
        LET s == pane.vertical_scroll
            r == pane_pass.temp_screen.cursor_position.y
        IN  /\ s + pane.scroll_offsets.top <= r \/ s = 0
            /\ r < s + PaneV - pane.scroll_offsets.bottom \/ s = PaneH - PaneV

\* C15: with keep_focused_window_visible set, after a render pass the rows
\* [win_top, win_top + win_height) of the focused window on the canvas lie
\* inside the rows [vertical_scroll, vertical_scroll + V) the viewport
\* shows, whenever the window is not taller than the viewport.
C15_FocusedWindowVisible ==
    (/\ pane_pass.done
     /\ pane.keep_focused_window_visible
     /\ ~pane_pass.temp_screen.cursor_position.is_none
     /\ pane_pass.temp_screen.focused.height <= PaneV) =>
        LET win_top == pane_pass.temp_screen.focused.ypos
            win_height == pane_pass.temp_screen.focused.height
        IN  /\ pane.vertical_scroll <= win_top
            /\ win_top + win_height <= pane.vertical_scroll + PaneV

\* C16: the position carried by a mouse event that reaches a handler
\* copied from the canvas lies within [0, width) x [0, height) of the
\* viewport.
C16_ReportedInsideViewport ==
    pane_event.dispatched =>
        /\ 0 <= pane_event.position.x
        /\ pane_event.position.x < pane_pass.write_position.width
        /\ 0 <= pane_event.position.y
        /\ pane_event.position.y < pane_pass.write_position.height

Items(n) == [i \in 1..n |-> i]

\* Neither the producer thread nor the consumer can take a step.
GenQuiescent == ~ENABLED GenNext

\* C17: a producer that yields N items and stops has the consumer receive
\* exactly those N items in order and then terminate, for every N and
\* every buffer size: the received items are always a prefix of the
\* produced ones, and the bridge comes to rest only with the iteration
\* ended and all N items received.
C17_Delivery ==
    ~gen_cfg.raises =>
        /\ gen_consumer.received = Items(Len(gen_consumer.received))
        /\ GenQuiescent =>
              /\ gen_consumer.pc = "ended"
              /\ gen_consumer.received = Items(gen_cfg.n)

\* C18: in every run of the producer thread the sentinel is put exactly
\* once, after every produced item, and is never handed to the consumer
\* as an item: never more than one sentinel, nothing behind it in the
\* queue, and the bridge comes to rest only after it has been put.
C18_SentinelOnce ==
    /\ gen_producer.sentinels <= 1
    /\ \A i \in 1..Len(gen_queue) : gen_queue[i].done => i = Len(gen_queue)
    /\ GenQuiescent => gen_producer.sentinels = 1

\* C19: if the producer raises after yielding k items, the consumer
\* receives those k items in order and then its iteration ends; it does
\* not stay waiting.
C19_ProducerFailure ==
    (gen_cfg.raises /\ GenQuiescent) =>
        /\ gen_consumer.pc = "ended"
        /\ gen_consumer.received = Items(gen_cfg.n)

\* C20: the consumer drains the queue while the producer is still
\* running: whenever an item is waiting in the queue the consumer's next
\* queue get can take place, whether or not the producer has finished.
C20_Streams ==
    (/\ gen_queue # <<>>
     /\ gen_producer.pc # "returned"
     /\ gen_consumer.pc \in {"await_producer", "get"}) => ENABLED ConsumerGet

ItemsQueued == Cardinality({i \in 1..Len(gen_queue) : ~gen_queue[i].done})

\* C21: backpressure without deadlock.  The producer never waits for queue
\* space (at the put of an item or of the sentinel) while the consumer is
\* not draining the queue, and no item taken from the iterable is dropped:
\* between two puts every item taken so far is in the queue or received.
C21_Backpressure ==
    /\ ~(/\ gen_producer.pc \in {"put", "finally"}
         /\ full(gen_queue, gen_cfg.buffer_size)
         /\ gen_consumer.pc # "get")
    /\ gen_producer.pc \in {"for", "finally", "returned"} =>
          Len(gen_consumer.received) + ItemsQueued = gen_producer.i

\* C22: a bare ESC is resolved only at flush.  After feed(ESC) on a fresh
\* parser, and nothing else, no key event has been delivered and ESC is
\* still buffered as the prefix.
C22_BareEscBuffered ==
    (vt_input = <<ESC>> /\ vt_calls = <<"feed">>) =>
        /\ vt_parser.keys = <<>>
        /\ vt_parser.prefix = <<ESC>>

\* The last top-level handler call of P was made for an exact match.
LastHandledIsMatch(P) ==
    /\ P.handled # <<>>
    /\ _get_match(P.handled[Len(P.handled)].data) # None
    /\ P.handled[Len(P.handled)].key = _get_match(P.handled[Len(P.handled)].data)

\* C23: prefix reset.  Every flush() step leaves the buffered prefix empty,
\* whatever was fed before, and every step whose last handler call emitted
\* an exact match leaves the prefix empty as well.
C23_PrefixReset ==
    [][/\ vt_calls' = Append(vt_calls, "flush") => vt_parser'.prefix = <<>>
       /\ (Len(vt_parser'.handled) > Len(vt_parser.handled) /\ LastHandledIsMatch(vt_parser')) =>
             vt_parser'.prefix = <<>>]_vars

C23_Witness ==
    /\ vt_input = <<"x", ESC, "[">>
    /\ vt_calls = <<"feed", "flush", "feed", "flush">>
    /\ vt_pos = 2
    /\ LastHandledIsMatch(vt_parser)
    /\ vt_parser.prefix = <<>>

\* The input fed so far is a strict prefix of a longer known sequence and
\* is not a known sequence itself.
VtFedStrictPrefix ==
    /\ vt_pos = Len(vt_input)
    /\ Len(vt_calls) >= 1
    /\ VtOnlyFeeds
    /\ _get_match(vt_input) = None
    /\ _IS_PREFIX_OF_LONGER_MATCH_CACHE(vt_input)

\* C30: the buffering step terminates.  When the characters fed to a fresh
\* parser form a strict prefix of a longer known sequence without being a
\* known sequence, and no flush happened, every feed call has returned, no
\* event was emitted and the whole input is still buffered.
C30_BufferingStep ==
    VtFedStrictPrefix =>
        /\ ~vt_parser.hung
        /\ vt_parser.keys = <<>>
        /\ vt_parser.prefix = vt_input

\* C24: sub-negotiation escaping.  Inside IAC SB ... IAC SE an IAC IAC pair
\* contributes one byte 255 to the payload of negotiate(): the NAWS frame
\* whose column low byte is sent as IAC IAC reports columns = 255 and the
\* given rows, the buffered payload never holds two adjacent 255 bytes,
\* and none of the frame's bytes reaches the data callback.
C24_SubnegotiationEscaping ==
    tn_input \in EscNawsFrames =>
        /\ tn_parser.data = <<>>
        /\ \A i \in 1..(Len(tn_parser.subnegotiation) - 1) :
              ~(/\ tn_parser.subnegotiation[i].v = <<255>>
                /\ tn_parser.subnegotiation[i + 1].v = <<255>>)
        /\ TnFedAll =>
              tn_parser.sizes =
                  <<[rows |-> 256 * tn_input[7] + tn_input[8], columns |-> 255]>>

\* C25: terminal type.  IAC SB TTYPE IS <bytes> IAC SE invokes the
\* terminal-type callback once with the bytes after IS and neither the
\* size nor the data callback; when the byte after TTYPE is not IS, no
\* callback is invoked at all.
C25_TerminalType ==
    /\ (tn_input \in TtypeIsFrames /\ TnFedAll) =>
          /\ tn_parser.ttypes = <<SubSeq(tn_input, 5, Len(tn_input) - 2)>>
          /\ tn_parser.sizes = <<>>
          /\ tn_parser.data = <<>>
    /\ (tn_input \in TtypeSendFrames /\ TnFedAll) =>
          /\ tn_parser.ttypes = <<>>
          /\ tn_parser.sizes = <<>>
          /\ tn_parser.data = <<>>

\* The reply verb the text gives for request verb d2 and option o.
ReplyVerb(d2, o) ==
    IF d2 = WILL.v[1]
    THEN (IF o \in {ECHO.v[1], SUPPRESS_GO_AHEAD.v[1]} THEN DO ELSE DONT)
    ELSE IF d2 = DONT.v[1] THEN WONT ELSE DONT

\* C26: WILL/DONT/WONT replies.  For every option o exactly one reply is
\* emitted per request: IAC WILL o gets DO o for ECHO and
\* SUPPRESS-GO-AHEAD and DONT o otherwise, IAC DONT o gets WONT o, and
\* IAC WONT o gets DONT o (with or without a leading IAC).
C26_WillDontWontReplies ==
    (tn_input \in WillFrames \cup DontFrames \cup WontFrames /\ TnFedAll) =>
        LET reply == ReplyVerb(tn_input[2], tn_input[3]).v \o <<tn_input[3]>>
        IN  /\ tn_parser.raised = ""
            /\ Len(tn_parser.data) = 1
            /\ tn_parser.data[1].v \in {reply, IAC.v \o reply}

\* The i-th call before the present state, 0 being the last one.
LastCall(i) == layout_calls[Len(layout_calls) - i]

\* The window of the layout that contains focusable element x, or "None".
WindowOf(x) ==
    CASE x.kind = "Window" -> x.id
      [] x.kind = "UIControl" -> find_window({w \in Windows : content(w) = x.id})
      [] x.kind \in {"Buffer", "str"} ->
            find_window({w \in Windows : isinstance_BufferControl(content(w))
                                   /\ buffer(content(w)) = x.id})
      [] OTHER -> "None"

\* C27: Layout.focus makes its target the focused element.  After
\* focus(x), x a Window of the layout or a UIControl, Buffer or buffer name
\* of one of its windows, that window is current_window and has_focus(x)
\* holds, whatever focus operations came before.
C27_FocusMakesTargetFocused ==
    (/\ Len(layout_calls) >= 1
     /\ LastCall(0).op = "focus"
     /\ LastCall(0).value.kind \in {"Window", "UIControl", "Buffer", "str"}
     /\ WindowOf(LastCall(0).value) # "None") =>
        /\ layout._stack # <<>>
        /\ current_window(layout) = WindowOf(LastCall(0).value)
        /\ has_focus(layout, LastCall(0).value)

\* C28: search session round trip.  After start_search(bc) the search
\* control of bc has the focus, the link sc -> bc is recorded and
\* is_searching is true; after a following stop_search(bc) the focus is on
\* bc again and search_links is what it was before start_search, so that
\* is_searching is false when no other search was in progress.
C28_SearchRoundTrip ==
    /\ (/\ Len(layout_calls) >= 1
        /\ LastCall(0).op = "start_search"
        /\ LastCall(0).value.id = "bc") =>
          /\ LastCall(0).raised = ""
          /\ current_control(layout).v = _search_buffer_control("bc")
          /\ <<_search_buffer_control("bc"), "bc">> \in layout.search_links
          /\ is_searching(layout)
    /\ (/\ Len(layout_calls) >= 2
        /\ LastCall(1).op = "start_search"
        /\ LastCall(1).value.id = "bc"
        /\ LastCall(0).op = "stop_search"
        /\ LastCall(0).value.id = "bc") =>
          /\ LastCall(0).raised = ""
          /\ current_control(layout).v = "bc"
          /\ layout.search_links = LastCall(1).before.search_links
          /\ LastCall(1).before.search_links = {} => ~is_searching(layout)

\* The last two calls were focus(a) and focus(b), i calls ago, for two
\* distinct windows a and b.
FocusedTwoWindows(i) ==
    /\ Len(layout_calls) >= i + 2
    /\ LastCall(i + 1).op = "focus"
    /\ LastCall(i).op = "focus"
    /\ LastCall(i + 1).value.kind = "Window"
    /\ LastCall(i).value.kind = "Window"
    /\ LastCall(i + 1).value # LastCall(i).value

\* C29: focus_last restores the previous focus.  After focus(a), focus(b)
\* for distinct windows a and b, previous_control is a's control, and a
\* following focus_last() makes a the focused window again; focus_last()
\* on a focus history of one entry changes nothing.
C29_FocusLastRestores ==
    /\ FocusedTwoWindows(0) =>
          previous_control(layout) = [raised |-> "", v |-> content(LastCall(1).value.id)]
    /\ (FocusedTwoWindows(1) /\ LastCall(0).op = "focus_last") =>
          /\ current_window(layout) = LastCall(2).value.id
          /\ has_focus(layout, LastCall(2).value)
    /\ (/\ Len(layout_calls) >= 1
        /\ LastCall(0).op = "focus_last"
        /\ Len(LastCall(0).before._stack) = 1) =>
          layout = LastCall(0).before

PassV == pane_pass.write_position.height
PassH == pane_pass.temp_screen.height
PassS == pane_pass.scroll_before
PassX == pane_pass.write_position.xpos
PassY == pane_pass.write_position.ypos
PassW == pane_pass.write_position.width
ScrollbarStyles ==
    {"class:scrollbar.background", "class:scrollbar", "class:scrollbar.arrow"}

\* C32: region copy.  A pass with scroll s has visible_height =
\* min(viewport height, virtual height - s), never negative, and copies
\* exactly the canvas cells of rows s .. s+visible_height-1 and columns
\* 0 .. width-1 to real cell (ypos + y, xpos + x): the zero-width escapes
\* of all of them and, apart from cells the scrollbar has drawn over, the
\* character and style.
C32_RegionCopy ==
    pane_pass.done =>
        LET target == {<<PassY + y, PassX + x>> :
                          y \in range(pane_pass.visible_height), x \in range(PassW)}
        IN  /\ pane_pass.visible_height = min(PassV, PassH - PassS)
            /\ pane_pass.visible_height >= 0
            /\ DOMAIN screen.zero_width_escapes = target
            /\ \A c \in target :
                  /\ screen.zero_width_escapes[c] = CanvasChar(c[1] - PassY + PassS, c[2] - PassX)
                  /\ c \in DOMAIN screen.data_buffer
                  /\ screen.data_buffer[c].style \notin ScrollbarStyles =>
                        screen.data_buffer[c] = CanvasChar(c[1] - PassY + PassS, c[2] - PassX)

\* C33: write-position translation.  The window position recorded on the
\* canvas is registered on the real screen at (xpos + pane.xpos,
\* ypos - vertical_scroll + pane.ypos) with its width and height, the
\* scroll being the one the cell copy of the same pass used, not the one
\* the pass ends with.
C33_WritePositionTranslation ==
    pane_pass.done =>
        LET f == pane_pass.temp_screen.focused
        IN  /\ screen.visible_windows_to_write_positions =
                  [w \in {"window"} |->
                      WritePosition(f.xpos + PassX, f.ypos - PassS + PassY,
                                    f.width, f.height)]
            /\ <<PassY, PassX>> \in DOMAIN screen.zero_width_escapes =>
                  screen.zero_width_escapes[<<PassY, PassX>>].y = PassS

C33_Witness ==
    /\ pane_pass.done
    /\ PassS > 0
    /\ pane.vertical_scroll # PassS
    /\ pane_pass.temp_screen.focused.ypos > 0
    /\ <<PassY, PassX>> \in DOMAIN screen.zero_width_escapes
    /\ screen.visible_windows_to_write_positions["window"].ypos =
          pane_pass.temp_screen.focused.ypos - PassS + PassY

\* round(n / d) as Python rounds: to the nearest integer, a tie to the
\* even one.
PyRound(n, d) ==
    LET q == n \div d
        r == n % d
    IN  IF 2 * r > d THEN q + 1
        ELSE IF 2 * r < d THEN q
        ELSE IF q % 2 = 0 THEN q ELSE q + 1

\* The rows of the scrollbar column, counted from the pane's top, that
\* show the thumb after the pass.
ThumbRows ==
    {c[1] - PassY : c \in {d \in DOMAIN screen.data_buffer :
                              /\ d[2] = PassX + PassW - 1
                              /\ screen.data_buffer[d].style = "class:scrollbar"}}

\* The thumb of `size` rows from row `start`, the first and the last row
\* of the viewport showing the arrows instead.
ThumbIs(start, size) ==
    ThumbRows = {i \in start..(start + size - 1) : i # 0 /\ i # PassV - 1}

NoScrollbarDrawn ==
    \A c \in DOMAIN screen.data_buffer :
        screen.data_buffer[c].style \notin ScrollbarStyles

C38_ScrollStable ==
    [][(/\ pane_pass.done
        /\ pane_pass'.done
        /\ pane_pass'.temp_screen = pane_pass.temp_screen
        /\ pane_pass'.write_position = pane_pass.write_position) =>
            pane'.vertical_scroll = pane.vertical_scroll]_vars

\* C39: frame.  A render pass writes no cell of the real screen outside
\* the pane's rectangle [xpos, xpos+width) x [ypos, ypos+height).
C39_Frame ==
    pane_pass.done =>
        \A c \in DOMAIN screen.data_buffer \cup DOMAIN screen.zero_width_escapes :
            /\ c[1] \in PassY..(PassY + PassV - 1)
            /\ c[2] \in PassX..(PassX + PassW - 1)


(***************************************************************************)
(* ===============  Properties: SGR codes and zero-width zones  ========== *)
(***************************************************************************)
\* The SGR codes of a string, in order: the numbers between ESC [ and m,
\* outside zero-width zones.
IsSgr(seq) ==
    /\ Len(seq) >= 2 /\ seq[1] = "[" /\ seq[Len(seq)] = "m"
    /\ LET fields == split_semicolon(SubSeq(seq, 2, Len(seq) - 1))
       IN  \A i \in 1..Len(fields) : fields[i] = <<>> \/ int_ok(fields[i])

SgrCodesOf(seq) ==
    IF IsSgr(seq)
    THEN LET fields == split_semicolon(SubSeq(seq, 2, Len(seq) - 1))
             nums == SelectSeq(fields, int_ok)
         IN  [i \in 1..Len(nums) |-> int(nums[i])]
    ELSE <<>>

RECURSIVE SgrScan(_, _)
SgrScan(st, str) ==
    IF str = <<>> THEN st
    ELSE LET c == Head(str)
             nxt ==
                 CASE st.mode = "esc" ->
                        IF isalpha(c) \/ c = "~"
                        THEN [st EXCEPT !.mode = "text", !.seq = <<>>,
                                        !.codes = @ \o SgrCodesOf(Append(st.seq, c)),
                                        !.other = @ \/ ~IsSgr(Append(st.seq, c))]
                        ELSE [st EXCEPT !.seq = Append(@, c)]
                   [] st.mode = "zero" ->
                        IF c = STX THEN [st EXCEPT !.mode = "text"] ELSE st
                   [] OTHER ->
                        IF c = ESC THEN [st EXCEPT !.mode = "esc"]
                        ELSE IF c = SOH THEN [st EXCEPT !.mode = "zero"]
                        ELSE st
         IN  SgrScan(nxt, Tail(str))

Sgr(str) ==
    SgrScan([mode |-> "text", seq |-> <<>>, codes |-> <<>>, other |-> FALSE], str)

SgrCodes(str) == Sgr(str).codes
OnlySgr(str) == ~Sgr(str).other

\* The attribute set a list of SGR codes stands for.
SgrFlag ==
    1 :> "bold" @@ 3 :> "italic" @@ 4 :> "underline" @@ 5 :> "blink"
      @@ 7 :> "reverse" @@ 8 :> "hidden"

NoAttributes == [on |-> {}, fg |-> None, bg |-> None]

\* The eight colours of codes 30-37, in code order.
ColourNames ==
    <<"black", "red", "green", "yellow", "blue", "magenta", "cyan", "white">>

SgrStep(e, c) ==
    IF c = 0 THEN NoAttributes
    ELSE IF c \in DOMAIN SgrFlag THEN [e EXCEPT !.on = @ \cup {SgrFlag[c]}]
    ELSE IF c \in 30..37 THEN [e EXCEPT !.fg = <<"ansi", ColourNames[c - 29]>>]
    ELSE IF c \in 90..97 THEN [e EXCEPT !.fg = <<"ansibright", ColourNames[c - 89]>>]
    ELSE IF c \in 40..47 THEN [e EXCEPT !.bg = <<"ansi", ColourNames[c - 39]>>]
    ELSE IF c \in 100..107 THEN [e EXCEPT !.bg = <<"ansibright", ColourNames[c - 99]>>]
    ELSE e

RECURSIVE SgrEffect(_, _)
SgrEffect(e, codes) ==
    IF codes = <<>> THEN e ELSE SgrEffect(SgrStep(e, Head(codes)), Tail(codes))

AttributesOf(A) ==
    [on |-> (IF A._bold THEN {"bold"} ELSE {})
              \cup (IF A._italic THEN {"italic"} ELSE {})
              \cup (IF A._underline THEN {"underline"} ELSE {})
              \cup (IF A._blink THEN {"blink"} ELSE {})
              \cup (IF A._reverse THEN {"reverse"} ELSE {})
              \cup (IF A._hidden THEN {"hidden"} ELSE {}),
     fg |-> A._color, bg |-> A._bgcolor]

\* C35: SGR accumulation.  After a decoder has applied the SGR codes of its
\* input, its attribute set is their cumulative effect: 1, 3, 4, 5, 7, 8
\* switch on bold, italic, underline, blink, reverse, hidden and leave the
\* rest alone, 30-37 and 90-97 set the foreground, 40-47 and 100-107 the
\* background, to the named (bright) colour, and 0 clears everything.
C35_SgrAccumulates ==
    (AnsiBuilt /\ OnlySgr(ansi_value)) =>
        /\ ansi_obj.raised = ""
        /\ AttributesOf(ansi_obj) = SgrEffect(NoAttributes, SgrCodes(ansi_value))

\* The part of C35 that is about the codes without a colour.
C35_FlagsAccumulate ==
    (AnsiBuilt /\ ansi_obj.raised = "") =>
        AttributesOf(ansi_obj) = SgrEffect(NoAttributes, SgrCodes(ansi_value))

\* The zero-width zones of a string, in order: the characters between SOH
\* and the next STX, each with the text run pending when the zone opened.
RECURSIVE ZoneScan(_, _)
ZoneScan(st, str) ==
    IF str = <<>> THEN st.zones
    ELSE LET c == Head(str)
             nxt ==
                 CASE st.mode = "esc" ->
                        IF isalpha(c) \/ c = "~" THEN [st EXCEPT !.mode = "text"] ELSE st
                   [] st.mode = "zero" ->
                        IF c = STX
                        THEN [st EXCEPT !.mode = "text", !.zone = <<>>, !.run = <<>>,
                                 !.zones = Append(@, [text |-> st.zone, before |-> st.run])]
                        ELSE [st EXCEPT !.zone = Append(@, c)]
                   [] OTHER ->
                        IF c = ESC THEN [st EXCEPT !.mode = "esc", !.run = <<>>]
                        ELSE IF c = SOH THEN [st EXCEPT !.mode = "zero"]
                        ELSE [st EXCEPT !.run = Append(@, c)]
         IN  ZoneScan(nxt, Tail(str))

Zones(str) ==
    ZoneScan([mode |-> "text", run |-> <<>>, zone |-> <<>>, zones |-> <<>>], str)

\* A string without its zero-width zones.
RECURSIVE WithoutZones(_, _)
WithoutZones(mode, str) ==
    IF str = <<>> THEN <<>>
    ELSE LET c == Head(str)
         IN  CASE mode = "esc" ->
                    <<c>> \o WithoutZones(IF isalpha(c) \/ c = "~" THEN "text" ELSE "esc",
                                          Tail(str))
               [] mode = "zero" ->
                    WithoutZones(IF c = STX THEN "text" ELSE "zero", Tail(str))
               [] OTHER ->
                    IF c = SOH THEN WithoutZones("zero", Tail(str))
                    ELSE <<c>> \o WithoutZones(IF c = ESC THEN "esc" ELSE "text", Tail(str))

\* The positions of the zero-width fragments, in order.
RECURSIVE ZeroWidthAt(_, _)
ZeroWidthAt(ft, i) ==
    IF i > Len(ft) THEN <<>>
    ELSE (IF ft[i].style = ZeroWidthEscape THEN <<i>> ELSE <<>>) \o ZeroWidthAt(ft, i + 1)

\* C36: zero-width zones.  The characters between SOH and the next STX
\* come out as one '[ZeroWidthEscape]' fragment holding exactly those
\* characters, after the pending text run as a fragment of its own; nothing
\* inside a zone, ESC included, is read as an escape sequence or changes
\* the attributes.
C36_ZeroWidthZones ==
    (AnsiBuilt /\ ansi_obj.raised = "") =>
        LET ft == __pt_formatted_text__(ansi_obj)
            at == ZeroWidthAt(ft, 1)
            zones == Zones(ansi_value)
        IN  /\ Len(at) = Len(zones)
            /\ \A k \in 1..Len(zones) :
                  /\ ft[at[k]].text = zones[k].text
                  /\ zones[k].before # <<>> =>
                        /\ at[k] > 1
                        /\ ft[at[k] - 1].style # ZeroWidthEscape
                        /\ ft[at[k] - 1].text = zones[k].before
            /\ AttributesOf(ansi_obj) = AttributesOf(ANSI(WithoutZones("text", ansi_value)))
            /\ ~ansi_obj.in_escape_sequence =>
                  ~ANSI(WithoutZones("text", ansi_value)).in_escape_sequence

C36_Witness ==
    /\ AnsiBuilt /\ ansi_obj.raised = ""
    /\ __pt_formatted_text__(ansi_obj) =
          << Fragment(<<>>, <<"r", "e", "d", "a">>),
             Fragment(ZeroWidthEscape, <<ESC, "[", "1", "m">>),
             Fragment(ZeroWidthEscape, <<"z">>) >>
    /\ ~ansi_obj._bold

NewInstance == vt_calls = <<>>

====
